---------------------------- MODULE Spec2Model ----------------------------
(***************************************************************************)
(* Flowa prototype: the indentation-aware lexer (lexer.py) and the         *)
(* tree-walking evaluator with spawn/await over asyncio (interpreter.py),  *)
(* as state machines.                                                      *)
(***************************************************************************)
EXTENDS Integers, Sequences, FiniteSets, TLC

(***************************************************************************)
(* Bounds of the model.                                                    *)
(***************************************************************************)
\* number of physical lines of a generated source text
MaxLines == 4
\* widest leading whitespace of a generated line
MaxIndent == 2

VARIABLES
    \* ---- Lexer (lexer.py) ----
    source,        \* Lexer.source, a sequence of characters
    pos,           \* Lexer.pos (0-based)
    line,          \* Lexer.line
    column,        \* Lexer.column
    tokens,        \* Lexer.tokens
    indent_stack,  \* Lexer.indent_stack
    lexState,      \* "idle" | "scanning" | "done" | "error" (LexerError) |
                   \* "value_error" (ValueError): position in tokenize()
    \* ---- Interpreter (interpreter.py) ----
    program,       \* the module being run and the way it is run
    envs,          \* the Environment objects, by identity (index)
    environment,   \* Interpreter.environment: the index of the current scope
    units,         \* the units of evaluation: the root and the asyncio tasks
    ready,         \* asyncio's queue of ready handles (unit ids; 0: stop the loop)
    batch,         \* handles left in the loop's current iteration
    loop,          \* "off" | "running" | "stopping" | "stopped": the event loop
    current,       \* the unit whose code is executing, 0 if none
    output,        \* what the run has printed
    ev,            \* the step just taken, for the properties
    \* ---- Parser (parser.py) ----
    parser_tokens, \* Parser.tokens
    parser_pos,    \* Parser.pos (0-based)
    module_body,   \* parse(): the statements collected so far
    parse_error,   \* the message of the ParserError raised, "" if none
    parseState,    \* "idle" | "parsing" | "parsed" | "error": position in parse()
    \* ---- a caller that tokenizes and parses a source text twice ----
    first_run      \* what the first run gave, once the second has begun

lexVars == <<source, pos, line, column, tokens, indent_stack, lexState>>

interpVars == <<program, envs, environment, units, ready, batch, loop, current,
                output, ev>>

parseVars == <<parser_tokens, parser_pos, module_body, parse_error, parseState,
               first_run>>

vars == <<lexVars, interpVars, parseVars>>

(***************************************************************************)
(* Lexer                                                                   *)
(***************************************************************************)

\* Token(type, value, line, column); value "" stands for None
Token(type, value, ln, col) ==
    [type |-> type, value |-> value, line |-> ln, column |-> col]

\* str.isspace / isalpha on the characters of the model's alphabet
IsSpace(c) == c \in {" ", "\n"}
Letters ==
    {"a", "b", "c", "d", "e", "f", "g", "h", "i", "j", "k", "l", "m", "n", "o", "p", "q",
     "r", "s", "t", "u", "v", "w", "x", "y", "z"}
Digits == {"0", "1", "2", "3", "4", "5", "6", "7", "8", "9"}
IsAlpha(c) == c \in Letters
\* str.isdigit holds for the decimal digits and for digit characters that
\* are not decimal, such as the superscript two
IsDigit(c) == c \in Digits \cup {"²"}
IsAlnum(c) == IsAlpha(c) \/ IsDigit(c)

\* the str of a sequence of characters (`value += self.peek()`)
RECURSIVE Text(_)
Text(chars) == IF chars = <<>> THEN "" ELSE Head(chars) \o Text(Tail(chars))

\* Lexer.keywords.get(value, TokenType.IDENTIFIER)
Keyword(value) ==
    CASE value = "def" -> "DEF"
      [] value = "async" -> "ASYNC"
      [] value = "return" -> "RETURN"
      [] value = "if" -> "IF"
      [] value = "else" -> "ELSE"
      [] value = "while" -> "WHILE"
      [] value = "for" -> "FOR"
      [] value = "in" -> "IN"
      [] value = "spawn" -> "SPAWN"
      [] value = "await" -> "AWAIT"
      [] value = "True" -> "TRUE"
      [] value = "False" -> "FALSE"
      [] value = "None" -> "NONE"
      [] value = "lambda" -> "LAMBDA"
      [] OTHER -> "IDENTIFIER"

\* int(c) of a digit
DigitValue(c) ==
    CASE c = "0" -> 0 [] c = "1" -> 1 [] c = "2" -> 2 [] c = "3" -> 3 [] c = "4" -> 4
      [] c = "5" -> 5 [] c = "6" -> 6 [] c = "7" -> 7 [] c = "8" -> 8 [] c = "9" -> 9

\* int(value) of a sequence of digits
RECURSIVE IntOf(_, _)
IntOf(chars, acc) ==
    IF chars = <<>> THEN acc ELSE IntOf(Tail(chars), 10 * acc + DigitValue(Head(chars)))

\* int(value) and float(value) accept decimal digits (and one '.') only
Numeric(chars) == \A i \in DOMAIN chars : chars[i] \in Digits \cup {"."}

\* read_number's value: int(value), or float(value) kept as its text
NumberValue(chars) ==
    IF \E i \in DOMAIN chars : chars[i] = "." THEN [float |-> Text(chars)]
    ELSE IntOf(chars, 0)

\* handle_symbol: the token type of char before next and the characters it
\* takes; no type for an unexpected character
Symbol(char, next) ==
    CASE char = "|" /\ next = ">" -> [type |-> "PIPE", len |-> 2]
      [] char = "=" /\ next = "=" -> [type |-> "EQEQ", len |-> 2]
      [] char = "!" /\ next = "=" -> [type |-> "NEQ", len |-> 2]
      [] char = "<" /\ next = "=" -> [type |-> "LTE", len |-> 2]
      [] char = ">" /\ next = "=" -> [type |-> "GTE", len |-> 2]
      [] char = "-" /\ next = ">" -> [type |-> "ARROW", len |-> 2]
      [] OTHER ->
            [len |-> 1,
             type |-> CASE char = "+" -> "PLUS" [] char = "-" -> "MINUS"
                        [] char = "*" -> "STAR" [] char = "/" -> "SLASH"
                        [] char = "=" -> "EQ" [] char = "<" -> "LT" [] char = ">" -> "GT"
                        [] char = "(" -> "LPAREN" [] char = ")" -> "RPAREN"
                        [] char = "{" -> "LBRACE" [] char = "}" -> "RBRACE"
                        [] char = "[" -> "LBRACKET" [] char = "]" -> "RBRACKET"
                        [] char = "," -> "COMMA" [] char = ":" -> "COLON"
                        [] char = "." -> "DOT" [] OTHER -> ""]

\* a read position of the lexer: the fields pos, line, column
Cursor(p, l, c) == [pos |-> p, line |-> l, column |-> c]

PeekAt(src, p) == IF p >= Len(src) THEN "" ELSE src[p + 1]

AdvanceCursor(src, cur) ==
    IF cur.pos < Len(src)
    THEN IF src[cur.pos + 1] = "\n"
         THEN Cursor(cur.pos + 1, cur.line + 1, 1)
         ELSE Cursor(cur.pos + 1, cur.line, cur.column + 1)
    ELSE cur

\* skip_comment's loop: advance up to the next newline or the end
RECURSIVE SkipCommentFrom(_, _)
SkipCommentFrom(src, cur) ==
    IF PeekAt(src, cur.pos) # "\n" /\ PeekAt(src, cur.pos) # ""
    THEN SkipCommentFrom(src, AdvanceCursor(src, cur))
    ELSE cur

\* handle_newline's loop over the leading whitespace of the next line
RECURSIVE SkipBlanksFrom(_, _)
SkipBlanksFrom(src, cur) ==
    IF IsSpace(PeekAt(src, cur.pos)) /\ PeekAt(src, cur.pos) # "\n"
       /\ PeekAt(src, cur.pos) # ""
    THEN SkipBlanksFrom(src, AdvanceCursor(src, cur))
    ELSE cur

\* read_identifier's loop: the cursor after the identifier
RECURSIVE IdentEnd(_, _)
IdentEnd(src, cur) ==
    IF IsAlnum(PeekAt(src, cur.pos)) \/ PeekAt(src, cur.pos) = "_"
    THEN IdentEnd(src, AdvanceCursor(src, cur))
    ELSE cur

\* read_number's loop: the cursor after the digits and at most one '.'
RECURSIVE NumberEnd(_, _, _)
NumberEnd(src, cur, is_float) ==
    IF IsDigit(PeekAt(src, cur.pos)) \/ PeekAt(src, cur.pos) = "."
    THEN IF PeekAt(src, cur.pos) = "."
         THEN IF is_float THEN cur ELSE NumberEnd(src, AdvanceCursor(src, cur), TRUE)
         ELSE NumberEnd(src, AdvanceCursor(src, cur), is_float)
    ELSE cur

\* the indentation stack cut back to the first level that is not above `level`
RECURSIVE DropAbove(_, _)
DropAbove(stack, level) ==
    IF level < stack[Len(stack)]
    THEN DropAbove(SubSeq(stack, 1, Len(stack) - 1), level)
    ELSE stack

\* a dedent loop that pops every level but reports one DEDENT for the line
PopWhileAboveOnce(stack, level, popped) ==
    [stack |-> DropAbove(stack, level),
     popped |-> IF level < stack[Len(stack)] THEN popped + 1 ELSE popped]

\* the dedent loop of handle_newline: pop while the level is below the top
RECURSIVE PopWhileAbove(_, _, _)
PopWhileAbove(stack, level, popped) ==
    IF level < stack[Len(stack)]
    THEN PopWhileAbove(SubSeq(stack, 1, Len(stack) - 1), level, popped + 1)
    ELSE [stack |-> stack, popped |-> popped]

\* a dedent that never fails
NeverMismatched(stack, level) == FALSE

\* handle_newline: `if indent_level != self.indent_stack[-1]`, after the pops
Mismatched(stack, level) == level # stack[Len(stack)]

\* an end of input that closes no line
NeverEndsLine(toks) == FALSE

\* handle_eof: `if self.tokens and self.tokens[-1].type != NEWLINE and ... != DEDENT`
EndsLine(toks) ==
    /\ toks # <<>>
    /\ toks[Len(toks)].type # "NEWLINE"
    /\ toks[Len(toks)].type # "DEDENT"

\* comment lines taken for logical lines
IgnoredUnlessComment(char) == char \in {"\n", ""}

\* handle_newline: the line is empty or a comment, or the input ends:
\* `if self.peek() == '\n' or self.peek() == '#': return`, `if self.peek() == '': return`
Ignored(char) == char \in {"\n", "#", ""}

\* an indent whose level is not kept
NotPushed(stack, level) == stack

\* handle_newline: `self.indent_stack.append(indent_level)`
Pushed(stack, level) == Append(stack, level)

\* n copies of a token
Repeat(tok, n) == [i \in 1..n |-> tok]

Here == Cursor(pos, line, column)

SetCursor(cur) ==
    /\ pos' = cur.pos
    /\ line' = cur.line
    /\ column' = cur.column

Scanning == lexState = "scanning" /\ pos < Len(source)

\* tokenize: char == '#'
SkipComment ==
    /\ Scanning
    /\ PeekAt(source, pos) = "#"
    /\ SetCursor(SkipCommentFrom(source, Here))
    /\ UNCHANGED <<source, tokens, indent_stack, lexState, interpVars, parseVars>>

\* tokenize: char == '\n'
HandleNewline ==
    /\ Scanning
    /\ PeekAt(source, pos) = "\n"
    /\ LET cur == SkipBlanksFrom(source, AdvanceCursor(source, Here))
           nxt == PeekAt(source, cur.pos)
           indent_level == cur.column - 1
           current_indent == indent_stack[Len(indent_stack)]
           newline == Token("NEWLINE", "", cur.line - 1, 1)
           r == PopWhileAbove(indent_stack, indent_level, 0)
       IN  /\ SetCursor(cur)
           /\ IF Ignored(nxt)
              THEN UNCHANGED <<tokens, indent_stack, lexState>>
              ELSE IF indent_level > current_indent
              THEN /\ indent_stack' = Pushed(indent_stack, indent_level)
                   /\ tokens' = tokens \o <<newline, Token("INDENT", "", cur.line, 1)>>
                   /\ UNCHANGED lexState
              ELSE IF indent_level < current_indent
              THEN /\ indent_stack' = r.stack
                   /\ tokens' = tokens \o <<newline>>
                                  \o Repeat(Token("DEDENT", "", cur.line, 1), r.popped)
                   /\ lexState' = IF Mismatched(r.stack, indent_level)
                                  THEN "error" ELSE lexState
              ELSE /\ tokens' = Append(tokens, newline)
                   /\ UNCHANGED <<indent_stack, lexState>>
    /\ UNCHANGED <<source, interpVars, parseVars>>

\* tokenize: char.isspace()
AdvanceSpace ==
    /\ Scanning
    /\ PeekAt(source, pos) # "\n"
    /\ IsSpace(PeekAt(source, pos))
    /\ SetCursor(AdvanceCursor(source, Here))
    /\ UNCHANGED <<source, tokens, indent_stack, lexState, interpVars, parseVars>>

\* tokenize: char.isalpha() or char == '_'
ReadIdentifier ==
    /\ Scanning
    /\ IsAlpha(PeekAt(source, pos)) \/ PeekAt(source, pos) = "_"
    /\ LET cur == IdentEnd(source, Here)
       IN  /\ SetCursor(cur)
           /\ tokens' = Append(tokens,
                  Token(Keyword(Text(SubSeq(source, pos + 1, cur.pos))),
                        Text(SubSeq(source, pos + 1, cur.pos)), line, column))
    /\ UNCHANGED <<source, indent_stack, lexState, interpVars, parseVars>>

\* tokenize: char.isdigit()
ReadNumber ==
    /\ Scanning
    /\ IsDigit(PeekAt(source, pos))
    /\ LET cur == NumberEnd(source, Here, FALSE)
       IN  /\ SetCursor(cur)
           /\ IF Numeric(SubSeq(source, pos + 1, cur.pos))
              THEN /\ tokens' = Append(tokens,
                          Token("NUMBER", NumberValue(SubSeq(source, pos + 1, cur.pos)),
                                line, column))
                   /\ UNCHANGED lexState
              \* int(value) raises ValueError, which nothing catches
              ELSE /\ lexState' = "value_error"
                   /\ UNCHANGED tokens
    /\ UNCHANGED <<source, indent_stack, interpVars, parseVars>>

\* tokenize: else: handle_symbol (the sources hold no quote characters)
HandleSymbol ==
    /\ Scanning
    /\ PeekAt(source, pos) \notin {"#", "\n", "_", "\"", "'"}
    /\ ~IsSpace(PeekAt(source, pos))
    /\ ~IsAlpha(PeekAt(source, pos))
    /\ ~IsDigit(PeekAt(source, pos))
    /\ LET char == PeekAt(source, pos)
           sym == Symbol(char, PeekAt(source, pos + 1))
       IN  IF sym.type # ""
           THEN /\ SetCursor(Cursor(pos + sym.len, line, column + sym.len))
                /\ tokens' = Append(tokens, Token(sym.type, char, line, column))
                /\ UNCHANGED lexState
           ELSE /\ SetCursor(Cursor(pos + 1, line, column + 1))
                /\ lexState' = "error"
                /\ UNCHANGED tokens
    /\ UNCHANGED <<source, indent_stack, interpVars, parseVars>>

\* tokenize: the loop has ended; handle_eof, then return self.tokens
HandleEof ==
    /\ lexState = "scanning"
    /\ pos >= Len(source)
    /\ LET nl == IF EndsLine(tokens) THEN <<Token("NEWLINE", "", line, 1)>> ELSE <<>>
       IN  tokens' = tokens \o nl
                       \o Repeat(Token("DEDENT", "", line, 1), Len(indent_stack) - 1)
                       \o <<Token("EOF", "", line, 1)>>
    /\ indent_stack' = SubSeq(indent_stack, 1, 1)
    /\ lexState' = "done"
    /\ UNCHANGED <<source, pos, line, column, interpVars, parseVars>>


(***************************************************************************)
(* Interpreter: values, tree nodes, scopes                                 *)
(***************************************************************************)

\* ---- runtime values: a tag t and a payload v ----
None == [t |-> "none", v |-> 0]
IntV(n) == [t |-> "int", v |-> n]
BoolV(b) == [t |-> "bool", v |-> IF b THEN 1 ELSE 0]
ListV(xs) == [t |-> "list", v |-> xs]
\* an asyncio.Task, by unit id
TaskV(id) == [t |-> "task", v |-> id]
\* a host callable bound in the global scope
BuiltinV(name) == [t |-> "builtin", v |-> name]
\* Function / AsyncFunction: a declaration and the scope of its definition
FuncV(decl, closure) ==
    [t |-> "func", v |-> 0, declaration |-> decl, closure |-> closure]
\* the coroutine object of an AsyncFunction.call that was not awaited yet
CoroV(func, args) == [t |-> "coro", v |-> <<func>> \o args]

IsFunction(x) == x.t = "func"
IsAsyncFunction(x) == x.t = "func" /\ x.declaration.is_async
\* Python's callable(): the host callables; Function has no __call__
IsCallable(x) == x.t = "builtin"
IsTask(x) == x.t = "task"
IsCoroutine(x) == x.t = "coro"
IsNumber(x) == x.t \in {"int", "bool"}

\* Python truthiness, as `if` and `while` test it
Truthy(x) ==
    CASE x.t = "none" -> FALSE
      [] x.t \in {"int", "bool"} -> x.v # 0
      [] x.t = "list" -> x.v # <<>>
      [] OTHER -> TRUE

\* ---- ast_nodes.py ----
NoNode == [node |-> "NoNode"]
Literal(value) == [node |-> "Literal", value |-> value]
Name(id) == [node |-> "Name", id |-> id]
BinOp(left, op, right) == [node |-> "BinOp", left |-> left, op |-> op, right |-> right]
Call(func, args) == [node |-> "Call", func |-> func, args |-> args]
Pipeline(left, right) == [node |-> "Pipeline", left |-> left, right |-> right]
Spawn(call) == [node |-> "Spawn", call |-> call]
Await(value) == [node |-> "Await", value |-> value]
Lambda(args, body) == [node |-> "Lambda", args |-> args, body |-> body]
ListNode(elements) == [node |-> "List", elements |-> elements]
FunctionDef(name, args, body, is_async) ==
    [node |-> "FunctionDef", name |-> name, args |-> args, body |-> body,
     is_async |-> is_async]
Return(value) == [node |-> "Return", value |-> value]
If(test, body, orelse) == [node |-> "If", test |-> test, body |-> body, orelse |-> orelse]
While(test, body) == [node |-> "While", test |-> test, body |-> body]
Assign(target, value) == [node |-> "Assign", target |-> target, value |-> value]
Block(statements) == [node |-> "Block", body |-> statements]

\* the subclasses of ast.Expr
ExprKinds == {"BinOp", "Call", "Pipeline", "Spawn", "Await", "Literal", "Name",
              "Lambda", "List"}

\* ---- what a finished activation hands to its caller ----
\* a value, a ReturnException carrying a value, or another exception
Val(x) == [tag |-> "val", v |-> x, msg |-> ""]
Returning(x) == [tag |-> "return", v |-> x, msg |-> ""]
Err(msg) == [tag |-> "error", v |-> None, msg |-> msg]

\* ---- Environment ----
\* owner: the unit whose call or block created the scope (0: the global scope)
Environment(parent, owner) ==
    [values |-> <<>>, parent |-> parent, owner |-> owner]

HasName(env, name) == name \in DOMAIN env.values

\* an assignment that rebinds a name of the enclosing scope when it has one
EnvDefineOuter(es, e, name, value) ==
    IF name \notin DOMAIN es[e].values /\ es[e].parent # 0
       /\ name \in DOMAIN es[es[e].parent].values
    THEN [es EXCEPT ![es[e].parent].values = (name :> value) @@ @]
    ELSE [es EXCEPT ![e].values = (name :> value) @@ @]

\* Environment.define on scope e of arena es
EnvDefine(es, e, name, value) ==
    [es EXCEPT ![e].values = (name :> value) @@ @]

\* a lookup that asks the scope itself only
EnvGetLocal(es, e, name) ==
    IF HasName(es[e], name) THEN Val(es[e].values[name])
    ELSE Err("Undefined variable")

\* Environment.get from scope e of arena es
RECURSIVE EnvGet(_, _, _)
EnvGet(es, e, name) ==
    IF HasName(es[e], name) THEN Val(es[e].values[name])
    ELSE IF es[e].parent # 0 THEN EnvGet(es, es[e].parent, name)
    ELSE Err("Undefined variable")

\* an assign that binds the name in the scope itself, bound before or not
EnvAssignDefines(es, e, name, value) ==
    [es |-> [es EXCEPT ![e].values = (name :> value) @@ @], res |-> Val(None)]

\* Environment.assign on scope e of arena es: the arena it leaves and what
\* the call returns or raises
RECURSIVE EnvAssign(_, _, _, _)
EnvAssign(es, e, name, value) ==
    IF HasName(es[e], name)
    THEN [es |-> [es EXCEPT ![e].values[name] = value], res |-> Val(None)]
    ELSE IF es[e].parent # 0 THEN EnvAssign(es, es[e].parent, name, value)
    ELSE [es |-> es, res |-> Err("Undefined variable")]

\* the scope chain of e, innermost first
RECURSIVE Chain(_, _)
Chain(es, e) == IF e = 0 THEN <<>> ELSE <<e>> \o Chain(es, es[e].parent)

\* Interpreter.apply_op on the model's values ('/' yields a float, which the
\* model's values do not hold: the modelled programs do not divide)
ApplyOp(op, left, right) ==
    CASE op \in {"TokenType.PLUS", "+"} ->
            IF IsNumber(left) /\ IsNumber(right) THEN Val(IntV(left.v + right.v))
            ELSE IF left.t = "list" /\ right.t = "list" THEN Val(ListV(left.v \o right.v))
            ELSE Err("TypeError")
      [] op \in {"TokenType.MINUS", "-"} ->
            IF IsNumber(left) /\ IsNumber(right) THEN Val(IntV(left.v - right.v))
            ELSE Err("TypeError")
      [] op \in {"TokenType.STAR", "*"} ->
            IF IsNumber(left) /\ IsNumber(right) THEN Val(IntV(left.v * right.v))
            ELSE Err("TypeError")
      [] op \in {"TokenType.GT", ">"} ->
            IF IsNumber(left) /\ IsNumber(right) THEN Val(BoolV(left.v > right.v))
            ELSE Err("TypeError")
      [] op \in {"TokenType.LT", "<"} ->
            IF IsNumber(left) /\ IsNumber(right) THEN Val(BoolV(left.v < right.v))
            ELSE Err("TypeError")
      [] op \in {"TokenType.EQEQ", "=="} ->
            IF IsNumber(left) /\ IsNumber(right) THEN Val(BoolV(left.v = right.v))
            ELSE IF left.t # right.t THEN Val(BoolV(FALSE))
            ELSE Val(BoolV(left = right))
      [] OTHER -> Err("Unknown operator")

\* the names Interpreter.__init__ defines in the global scope
BuiltinNames == {"print", "input", "map", "filter", "sum", "list", "int", "float",
                 "str", "len"}

RECURSIVE SumOf(_)
SumOf(xs) == IF xs = <<>> THEN 0 ELSE xs[1].v + SumOf(Tail(xs))

\* callee(*args) for the host callables the modelled programs call
CallBuiltin(name, args) ==
    CASE name = "print" -> Val(None)
      [] name = "len" ->
            IF Len(args) = 1 /\ args[1].t = "list" THEN Val(IntV(Len(args[1].v)))
            ELSE Err("TypeError")
      [] name = "sum" ->
            IF Len(args) = 1 /\ args[1].t = "list"
               /\ \A i \in 1..Len(args[1].v) : IsNumber(args[1].v[i])
            THEN Val(IntV(SumOf(args[1].v)))
            ELSE Err("TypeError")
      [] name = "list" ->
            IF Len(args) = 1 /\ args[1].t = "list" THEN Val(args[1])
            ELSE Err("TypeError")
      [] name = "int" ->
            IF Len(args) = 1 /\ IsNumber(args[1]) THEN Val(IntV(args[1].v))
            ELSE Err("TypeError")

\* Interpreter.__init__: the global scope with the built-ins
GlobalEnvironment ==
    [values |-> [n \in BuiltinNames |-> BuiltinV(n)], parent |-> 0, owner |-> 0]

\* ---- activations: the Python frames of a unit, innermost last ----
\* fn: the method; mode: "sync" (evaluate, execute, execute_block,
\* Function.call) or "async" (their *_async twins, AsyncFunction.call);
\* pc: how far the method has got; vals: the values it holds; env: the scope
\* it was given; prev: the scope it saved; snap: the scopes as they were
\* when it was entered (kept for the properties only)
Frame(fn, mode, node, pc, vals, env) ==
    [fn |-> fn, mode |-> mode, node |-> node, pc |-> pc, vals |-> vals,
     env |-> env, prev |-> 0, snap |-> <<>>]

EvalFrame(mode, node) == Frame("evaluate", mode, node, 0, <<>>, 0)
ExecFrame(mode, node) == Frame("execute", mode, node, 0, <<>>, 0)
BlockFrame(mode, statements, env) ==
    Frame("execute_block", mode, Block(statements), 0, <<>>, env)
CallFrame(mode, func, args) ==
    Frame("call", mode, func.declaration, 0, <<func>> \o args, 0)

\* the activation of interpret(module) (snap: the scopes when it began)
InterpretFrame(body, es) ==
    [Frame("interpret", "sync", Block(body), 0, <<>>, 0) EXCEPT !.snap = es]

Replace(st, f) == [st EXCEPT ![Len(st)] = f]
Pop(st) == SubSeq(st, 1, Len(st) - 1)

\* the step just taken: what it did, the unit and the activation that did
\* it, the scope that was current, the value it worked on and its outcome
Ev(kind, unit, frame, env, val, res) ==
    [kind |-> kind, unit |-> unit, mode |-> frame.mode, node |-> frame.node,
     frame |-> frame, env |-> env, val |-> val, res |-> res]
NoEv == Ev("none", 0, Frame("none", "", NoNode, 0, <<>>, 0), 0, None, Val(None))

(***************************************************************************)
(* Interpreter: one step of the executing unit's innermost activation      *)
(***************************************************************************)

\* scopes and asyncio tasks the model allocates before it stops
MaxEnvs == 12
MaxUnits == 6

Me == units[current]
Top == Me.stack[Len(Me.stack)]
\* the innermost activation is fn on a node of this kind
At(fn, kind) == current # 0 /\ Top.fn = fn /\ Top.node.node = kind
\* the activation's child returned a value
Resumed == Me.ret.tag = "val"

WithPush(f, child) ==
    [units EXCEPT ![current].stack = Append(Replace(@, f), child)]
WithFinish(r) ==
    [units EXCEPT ![current].stack = Pop(@), ![current].ret = r]
WithGoto(f) ==
    [units EXCEPT ![current].stack = Replace(@, f)]

Commit(u, es, e, out, event) ==
    /\ units' = u
    /\ envs' = es
    /\ environment' = e
    /\ output' = out
    /\ ev' = event
    /\ UNCHANGED <<program, ready, batch, loop, current, lexVars, parseVars>>

\* a step that only moves the unit's activations
Move(u) == Commit(u, envs, environment, output, NoEv)

Event(kind, f, val, res) ==
    Ev(kind, current, f, environment, val, res)

\* an exception leaves an activation that has no handler for it
Unwind ==
    /\ current # 0
    /\ Top.fn \in {"evaluate", "execute"}
    /\ Top.pc > 0
    /\ ~Resumed
    /\ Move(WithFinish(Me.ret))

\* evaluate: ast.Literal (evaluate_async falls back to evaluate)
EvaluateLiteral ==
    /\ At("evaluate", "Literal")
    /\ Move(WithFinish(Val(Top.node.value)))

\* evaluate: ast.Name (evaluate_async falls back to evaluate)
EvaluateName ==
    /\ At("evaluate", "Name")
    /\ LET r == EnvGet(envs, environment, Top.node.id)
       IN  Commit(WithFinish(r), envs, environment, output,
                  Event("get", Top, None, r))

\* evaluate / evaluate_async: ast.BinOp
EvaluateBinOp ==
    /\ At("evaluate", "BinOp")
    /\ LET f == Top
       IN  CASE f.pc = 0 ->
                  Move(WithPush([f EXCEPT !.pc = 1], EvalFrame(f.mode, f.node.left)))
             [] f.pc = 1 /\ Resumed ->
                  Move(WithPush([f EXCEPT !.pc = 2, !.vals = <<Me.ret.v>>],
                                EvalFrame(f.mode, f.node.right)))
             [] f.pc = 2 /\ Resumed ->
                  Move(WithFinish(ApplyOp(f.node.op, f.vals[1], Me.ret.v)))
             [] OTHER -> FALSE

\* what print leaves on the output
OutputAfter(callee, args) ==
    IF callee.t = "builtin" /\ callee.v = "print"
    THEN Append(output, args) ELSE output

\* evaluate / evaluate_async: ast.Call
\* pc 0: evaluate the callee; pc k: the k-th value arrived (callee, then the
\* arguments left to right); then dispatch; last pc: the callee returned
EvaluateCall ==
    /\ At("evaluate", "Call")
    /\ LET f == Top
           n == Len(f.node.args)
           got == Append(f.vals, Me.ret.v)
           callee == got[1]
           args == Tail(got)
           called == [f EXCEPT !.pc = n + 2, !.vals = got]
       IN  CASE f.pc = 0 ->
                  Move(WithPush([f EXCEPT !.pc = 1], EvalFrame(f.mode, f.node.func)))
             [] f.pc \in 1..n /\ Resumed ->
                  Move(WithPush([f EXCEPT !.pc = f.pc + 1, !.vals = got],
                                EvalFrame(f.mode, f.node.args[f.pc])))
             [] f.pc = n + 1 /\ Resumed /\ f.mode = "sync" ->
                  \* Function.call; an AsyncFunction's call only makes the coroutine
                  IF IsAsyncFunction(callee)
                  THEN Move(WithFinish(Val(CoroV(callee, args))))
                  ELSE IF IsFunction(callee)
                  THEN Move(WithPush(called, CallFrame("sync", callee, args)))
                  ELSE IF IsCallable(callee)
                  THEN Commit(WithFinish(CallBuiltin(callee.v, args)), envs,
                              environment, OutputAfter(callee, args), NoEv)
                  ELSE Move(WithFinish(Err("Not a function")))
             [] f.pc = n + 1 /\ Resumed /\ f.mode = "async" ->
                  IF IsAsyncFunction(callee)
                  THEN Move(WithPush(called, CallFrame("async", callee, args)))
                  ELSE IF IsFunction(callee)
                  THEN Move(WithPush(called, CallFrame("sync", callee, args)))
                  ELSE IF IsCallable(callee)
                  THEN Commit(WithFinish(CallBuiltin(callee.v, args)), envs,
                              environment, OutputAfter(callee, args), NoEv)
                  \* no branch returned: `return self.evaluate(expr)`
                  ELSE Move(WithGoto(EvalFrame("sync", f.node)))
             [] f.pc = n + 2 /\ Resumed ->
                  Move(WithFinish(Me.ret))
             [] OTHER -> FALSE

\* evaluate: ast.Pipeline (evaluate_async falls back to evaluate, so every
\* part of a pipe is evaluated by the synchronous evaluator)
\* vals: the left value, the callee, the call's own arguments
EvaluatePipeline ==
    /\ At("evaluate", "Pipeline")
    /\ LET f == Top
           right == f.node.right
           n == IF right.node = "Call" THEN Len(right.args) ELSE 0
           got == Append(f.vals, Me.ret.v)
           callee == got[2]
           args == <<got[1]>> \o SubSeq(got, 3, Len(got))
       IN  CASE f.pc = 0 ->
                  Move(WithPush([f EXCEPT !.pc = 1], EvalFrame("sync", f.node.left)))
             [] f.pc = 1 /\ Resumed ->
                  IF right.node = "Call"
                  THEN Move(WithPush([f EXCEPT !.pc = 2, !.vals = got],
                                     EvalFrame("sync", right.func)))
                  ELSE IF right.node = "Name"
                  THEN Move(WithPush([f EXCEPT !.pc = 2, !.vals = got],
                                     EvalFrame("sync", right)))
                  ELSE Move(WithFinish(Err("Invalid pipeline right hand side")))
             [] f.pc \in 2..(n + 1) /\ Resumed ->
                  Move(WithPush([f EXCEPT !.pc = f.pc + 1, !.vals = got],
                                EvalFrame("sync", right.args[f.pc - 1])))
             [] f.pc = n + 2 /\ Resumed ->
                  IF IsAsyncFunction(callee)
                  THEN Move(WithFinish(Val(CoroV(callee, args))))
                  ELSE IF IsFunction(callee)
                  THEN Move(WithPush([f EXCEPT !.pc = n + 3, !.vals = got],
                                     CallFrame("sync", callee, args)))
                  ELSE IF IsCallable(callee)
                  THEN Commit(WithFinish(CallBuiltin(callee.v, args)), envs,
                              environment, OutputAfter(callee, args), NoEv)
                  ELSE Move(WithFinish(Err("Invalid pipeline right hand side")))
             [] f.pc = n + 3 /\ Resumed ->
                  Move(WithFinish(Me.ret))
             [] OTHER -> FALSE

\* evaluate: ast.Lambda (evaluate_async falls back to evaluate)
EvaluateLambda ==
    /\ At("evaluate", "Lambda")
    /\ LET func_def == FunctionDef("<lambda>", Top.node.args,
                                   <<Return(Top.node.body)>>, FALSE)
       IN  Move(WithFinish(Val(FuncV(func_def, environment))))

\* evaluate / evaluate_async: ast.List
EvaluateList ==
    /\ At("evaluate", "List")
    /\ LET f == Top
           n == Len(f.node.elements)
           got == IF f.pc = 0 THEN <<>> ELSE Append(f.vals, Me.ret.v)
       IN  /\ (f.pc > 0) => Resumed
           /\ IF f.pc < n
              THEN Move(WithPush([f EXCEPT !.pc = f.pc + 1, !.vals = got],
                                 EvalFrame(f.mode, f.node.elements[f.pc + 1])))
              ELSE Move(WithFinish(Val(ListV(got))))

\* a task whose body is entered at once, before spawn returns
NewTaskStarted(func, args) ==
    [stack |-> <<Frame("task", "async", NoNode, 1, <<>>, 0),
                 CallFrame("async", func, args)>>,
     ret |-> Val(None), status |-> "ready", waiting_on |-> 0, waiters |-> <<>>,
     result |-> Val(None), started |-> TRUE, func |-> func, args |-> args]

\* a new asyncio task for the coroutine of func(args): Task.__init__ puts its
\* first step on the loop's ready queue; no statement of the body has run
NewTask(func, args) ==
    [stack |-> <<Frame("task", "async", NoNode, 1, <<>>, 0),
                 CallFrame("async", func, args)>>,
     ret |-> Val(None), status |-> "ready", waiting_on |-> 0, waiters |-> <<>>,
     result |-> Val(None), started |-> FALSE, func |-> func, args |-> args]

\* evaluate_async: ast.Spawn; evaluate has no branch for it and returns None
\* a spawn that raises what the spawned body will raise
SpawnRaises(id) == Err("Undefined variable")

\* `return asyncio.create_task(...)`: the spawn expression's value is the
\* handle of the task, whose coroutine has not run yet
Spawned(id) == Val(TaskV(id))

EvaluateSpawn ==
    /\ At("evaluate", "Spawn")
    /\ LET f == Top
           call == f.node.call
           n == IF call.node = "Call" THEN Len(call.args) ELSE 0
           got == Append(f.vals, Me.ret.v)
           callee == got[1]
           args == Tail(got)
           id == Len(units) + 1
       IN  CASE f.mode = "sync" ->
                  Commit(WithFinish(Val(None)), envs, environment, output,
                         Event("spawn", f, None, Val(None)))
             [] f.mode = "async" /\ f.pc = 0 ->
                  IF call.node = "Call"
                  THEN Move(WithPush([f EXCEPT !.pc = 1], EvalFrame("async", call.func)))
                  ELSE Commit(WithFinish(Err("Spawn requires a call to an async function")),
                              envs, environment, output,
                              Event("spawn", f, None,
                                    Err("Spawn requires a call to an async function")))
             [] f.mode = "async" /\ f.pc \in 1..n /\ Resumed ->
                  Move(WithPush([f EXCEPT !.pc = f.pc + 1, !.vals = got],
                                EvalFrame("async", call.args[f.pc])))
             [] f.mode = "async" /\ f.pc = n + 1 /\ Resumed ->
                  IF IsAsyncFunction(callee)
                  THEN /\ Len(units) < MaxUnits
                       /\ units' = Append(WithFinish(Spawned(id)), NewTask(callee, args))
                       /\ ready' = Append(ready, id)
                       /\ ev' = Event("spawn", f, callee, Spawned(id))
                       /\ UNCHANGED <<program, envs, environment, output, batch, loop,
                                      current, lexVars, parseVars>>
                  ELSE Commit(WithFinish(Err("Spawn requires a call to an async function")),
                              envs, environment, output,
                              Event("spawn", f, callee,
                                    Err("Spawn requires a call to an async function")))
             [] OTHER -> FALSE

\* an await that suspends on every task handle, resolved or not
AlwaysPending(h) == TRUE

\* `await val` on a task suspends only if the task has not ended yet
\* (Future.__await__: `if not self.done(): yield self`)
Pending(h) == units[h].status # "done"

\* an await that forgets what the task returned
NoResult(h) == Val(None)

\* `return await val` on a task that has ended: Future.result(), the value
\* the task's coroutine returned or the exception it raised
TaskResult(h) == units[h].result

\* evaluate_async: ast.Await; evaluate has no branch for it and returns None
\* pc 1: the operand's value arrived; pc 2: woken by the awaited task;
\* pc 3: the awaited coroutine returned
EvaluateAwait ==
    /\ At("evaluate", "Await")
    /\ LET f == Top
           val == Me.ret.v
       IN  CASE f.mode = "sync" ->
                  Commit(WithFinish(Val(None)), envs, environment, output,
                         Event("await", f, None, Val(None)))
             [] f.mode = "async" /\ f.pc = 0 ->
                  Move(WithPush([f EXCEPT !.pc = 1], EvalFrame("async", f.node.value)))
             [] f.mode = "async" /\ f.pc = 1 /\ Resumed /\ IsTask(val) ->
                  IF ~Pending(val.v)
                  THEN Commit(WithFinish(TaskResult(val.v)), envs, environment, output,
                              Event("await", f, val, TaskResult(val.v)))
                  ELSE \* `await val` on a pending task: control goes back to the loop
                       /\ units' = [units EXCEPT
                              ![current].stack = Replace(@, [f EXCEPT !.pc = 2, !.vals = <<val>>]),
                              ![current].status = "waiting",
                              ![current].waiting_on = val.v,
                              ![val.v].waiters = Append(@, current)]
                       /\ current' = 0
                       /\ ev' = Event("suspend", f, val, Val(None))
                       /\ UNCHANGED <<program, envs, environment, output, ready, batch,
                                      loop, lexVars, parseVars>>
             [] f.mode = "async" /\ f.pc = 1 /\ Resumed /\ IsCoroutine(val) ->
                  Move(WithPush([f EXCEPT !.pc = 3, !.vals = <<val>>],
                                CallFrame("async", val.v[1], Tail(val.v))))
             [] f.mode = "async" /\ f.pc = 1 /\ Resumed
                  /\ ~IsTask(val) /\ ~IsCoroutine(val) ->
                  Commit(WithFinish(Val(val)), envs, environment, output,
                         Event("await", f, val, Val(val)))
             [] f.mode = "async" /\ f.pc = 2 ->
                  Commit(WithFinish(TaskResult(f.vals[1].v)), envs, environment, output,
                         Event("await", f, f.vals[1], TaskResult(f.vals[1].v)))
             [] f.mode = "async" /\ f.pc = 3 ->
                  Commit(WithFinish(Me.ret), envs, environment, output,
                         Event("await", f, f.vals[1], Me.ret))
             [] OTHER -> FALSE

\* execute / execute_async: ast.FunctionDef
ExecuteFunctionDef ==
    /\ At("execute", "FunctionDef")
    /\ LET func == FuncV(Top.node, environment)
       IN  Commit(WithFinish(Val(None)),
                  EnvDefine(envs, environment, Top.node.name, func),
                  environment, output, Event("define", Top, func, Val(None)))

\* execute / execute_async: ast.Return
ExecuteReturn ==
    /\ At("execute", "Return")
    /\ LET f == Top
       IN  CASE f.pc = 0 /\ f.node.value.node = "NoNode" ->
                  Move(WithFinish(Returning(None)))
             [] f.pc = 0 /\ f.node.value.node # "NoNode" ->
                  Move(WithPush([f EXCEPT !.pc = 1], EvalFrame(f.mode, f.node.value)))
             [] f.pc = 1 /\ Resumed ->
                  Move(WithFinish(Returning(Me.ret.v)))
             [] OTHER -> FALSE

\* execute / execute_async: ast.Assign; the name is defined in the scope
\* that is current when the value arrives
ExecuteAssign ==
    /\ At("execute", "Assign")
    /\ LET f == Top
       IN  CASE f.pc = 0 ->
                  Move(WithPush([f EXCEPT !.pc = 1], EvalFrame(f.mode, f.node.value)))
             [] f.pc = 1 /\ Resumed ->
                  Commit(WithFinish(Val(None)),
                         EnvDefine(envs, environment, f.node.target, Me.ret.v),
                         environment, output, Event("define", f, Me.ret.v, Val(None)))
             [] OTHER -> FALSE

\* execute / execute_async: ast.If
ExecuteIf ==
    /\ At("execute", "If")
    /\ LET f == Top
           new == Len(envs) + 1
           chosen == IF Truthy(Me.ret.v) THEN f.node.body ELSE f.node.orelse
       IN  CASE f.pc = 0 ->
                  Move(WithPush([f EXCEPT !.pc = 1], EvalFrame(f.mode, f.node.test)))
             [] f.pc = 1 /\ Resumed ->
                  IF Truthy(Me.ret.v) \/ f.node.orelse # <<>>
                  THEN /\ Len(envs) < MaxEnvs
                       /\ Commit(WithPush([f EXCEPT !.pc = 2],
                                          BlockFrame(f.mode, chosen, new)),
                                 Append(envs, Environment(environment, current)),
                                 environment, output, NoEv)
                  ELSE Move(WithFinish(Val(None)))
             [] f.pc = 2 /\ Resumed ->
                  Move(WithFinish(Val(None)))
             [] OTHER -> FALSE

\* execute / execute_async: ast.While
ExecuteWhile ==
    /\ At("execute", "While")
    /\ LET f == Top
           new == Len(envs) + 1
           \* prev, snap: the scope and the scopes when the loop began
           begun == IF f.pc = 0 THEN [f EXCEPT !.prev = environment, !.snap = envs]
                    ELSE f
       IN  CASE f.pc \in {0, 2} /\ (f.pc = 2 => Resumed) ->
                  Move(WithPush([begun EXCEPT !.pc = 1], EvalFrame(f.mode, f.node.test)))
             [] f.pc = 1 /\ Resumed ->
                  IF Truthy(Me.ret.v)
                  THEN /\ Len(envs) < MaxEnvs
                       /\ Commit(WithPush([f EXCEPT !.pc = 2],
                                          BlockFrame(f.mode, f.node.body, new)),
                                 Append(envs, Environment(environment, current)),
                                 environment, output, NoEv)
                  ELSE Move(WithFinish(Val(None)))
             [] OTHER -> FALSE

\* execute / execute_async: an expression statement (ast.Expr)
ExecuteExpr ==
    /\ current # 0
    /\ Top.fn = "execute"
    /\ Top.node.node \in ExprKinds
    /\ LET f == Top
       IN  CASE f.pc = 0 ->
                  Move(WithPush([f EXCEPT !.pc = 1], EvalFrame(f.mode, f.node)))
             [] f.pc = 1 /\ Resumed ->
                  Move(WithFinish(Val(None)))
             [] OTHER -> FALSE

\* finally: self.environment = previous, with a scope left current in its place
NotRestored(f) == environment

\* execute_block: `finally: self.environment = previous`
Restored(f) == f.prev

\* execute_block / execute_block_async: pc counts the statements started;
\* the block's scope becomes the current one once, on entry; whatever ends
\* the block, `finally` puts the saved scope back
ExecuteBlock ==
    /\ At("execute_block", "Block")
    /\ LET f == Top
           body == f.node.body
           entered == IF f.pc = 0
                      THEN [f EXCEPT !.prev = environment, !.snap = envs]
                      ELSE f
       IN  IF f.pc > 0 /\ ~Resumed
           THEN Commit(WithFinish(Me.ret), envs, Restored(f), output,
                       Event("block_exit", f, None, Me.ret))
           ELSE IF f.pc < Len(body)
           THEN Commit(WithPush([entered EXCEPT !.pc = f.pc + 1],
                                ExecFrame(f.mode, body[f.pc + 1])),
                       envs, IF f.pc = 0 THEN f.env ELSE environment, output,
                       IF f.pc = 0 THEN Event("block_enter", entered, None, Val(None))
                       ELSE NoEv)
           ELSE Commit(WithFinish(Val(None)), envs, Restored(entered), output,
                       Event("block_exit", entered, None, Val(None)))

\* the scope of a call: parameters bound to the arguments by position
BoundValues(params, args) ==
    [name \in {params[i] : i \in 1..Len(args)} |->
        args[CHOOSE i \in 1..Len(args) :
                /\ params[i] = name
                /\ \A j \in 1..Len(args) : params[j] = name => j <= i]]

\* dynamic scoping: the scope of a call hangs under the caller's scope
CallParentDynamic(func) == environment

\* the parent of the scope a call creates: the closure of the function
CallParent(func) == func.closure

\* a call that lets the return signal through to its caller
CallLetsReturnThrough(r) == r

\* Function.call: `except ReturnException as e: return e.value`, else None;
\* any other exception passes
CallResult(r) ==
    IF r.tag = "return" THEN Val(r.v)
    ELSE IF r.tag = "error" THEN r
    ELSE Val(None)

\* Function.call / AsyncFunction.call
FunctionCall ==
    /\ At("call", "FunctionDef")
    /\ LET f == Top
           func == f.vals[1]
           args == Tail(f.vals)
           params == f.node.args
           new == Len(envs) + 1
           scope == [values |-> BoundValues(params, args),
                     parent |-> CallParent(func), owner |-> current]
           entered == [f EXCEPT !.pc = 1, !.env = new, !.prev = environment,
                                !.snap = envs]
       IN  CASE f.pc = 0 /\ Len(args) > Len(params) ->
                  \* self.declaration.args[i]: IndexError
                  Move(WithFinish(Err("IndexError")))
             [] f.pc = 0 /\ Len(args) <= Len(params) ->
                  /\ Len(envs) < MaxEnvs
                  /\ Commit(WithPush(entered, BlockFrame(f.mode, f.node.body, new)),
                            Append(envs, scope), environment, output,
                            Event("call_enter", entered, func, Val(None)))
             [] f.pc = 1 ->
                  LET r == CallResult(Me.ret)
                  IN  Commit(WithFinish(r), envs, environment, output,
                             Event("call_exit", f, func, r))

\* the root unit has ended: nothing of the run is left to execute
RootDone(r, out, event) ==
    /\ units' = [units EXCEPT ![current].stack = <<>>,
                              ![current].status = "done",
                              ![current].result = r]
    /\ current' = 0
    /\ output' = out
    /\ ev' = event
    /\ UNCHANGED <<program, envs, environment, ready, batch, loop, lexVars, parseVars>>

\* an interpret whose handler lets a ReturnException pass as if nothing was raised
CatchesErrorsOnly(r) == r.tag = "error"

\* an interpret without a handler: the loop goes on after a failed statement
CatchesNothing(r) == FALSE

\* interpret: `except Exception as e`; ReturnException is an Exception too
InterpretCatches(r) == r.tag \in {"error", "return"}

\* print(f"Runtime Error: {e}"): the message of the exception, or the value
\* a ReturnException carries
Report(r) ==
    <<[t |-> "Runtime Error", v |-> IF r.tag = "return" THEN r.v ELSE r.msg]>>

\* Interpreter.interpret: the statements in order; any exception (a
\* ReturnException too) ends the run and is printed
Interpret ==
    /\ At("interpret", "Block")
    /\ LET f == Top
           body == f.node.body
       IN  IF f.pc > 0 /\ InterpretCatches(Me.ret)
           THEN RootDone(Me.ret, Append(output, Report(Me.ret)),
                         Event("reported", f, None, Me.ret))
           ELSE IF f.pc < Len(body)
           THEN Move(WithPush([f EXCEPT !.pc = f.pc + 1],
                              ExecFrame("sync", body[f.pc + 1])))
           ELSE RootDone(Val(None), output, Event("interpreted", f, None, Val(None)))

\* TestConcurrency.run_async_code and the test's call_main: the module body
\* through execute_block_async on the global scope, then main.call(interpreter, [])
RunAsyncCode ==
    /\ At("run_async_code", "Block")
    /\ LET f == Top
           main_func == EnvGet(envs, 1, "main")
       IN  CASE f.pc = 0 ->
                  Move(WithPush([f EXCEPT !.pc = 1], BlockFrame("async", f.node.body, 1)))
             [] f.pc = 1 /\ Resumed /\ main_func.tag = "val" ->
                  Move(WithPush([f EXCEPT !.pc = 2], CallFrame("async", main_func.v, <<>>)))
             [] f.pc = 1 /\ Resumed /\ main_func.tag # "val" ->
                  Move(WithFinish(main_func))
             [] f.pc \in {1, 2} /\ ~Resumed ->
                  Move(WithFinish(Me.ret))
             [] f.pc = 2 /\ Resumed ->
                  Move(WithFinish(Me.ret))
             [] OTHER -> FALSE

\* the status of every unit in ws becomes "ready"
Woken(us, ws) ==
    [i \in DOMAIN us |->
        IF \E k \in DOMAIN ws : ws[k] = i THEN [us[i] EXCEPT !.status = "ready"]
        ELSE us[i]]

\* the coroutine of a task has ended: the task holds its result or its
\* exception, and its done-callbacks (the wake-ups of the units awaiting it;
\* for the root, the loop's stop) go to the ready queue
TaskDone ==
    /\ current # 0
    /\ Top.fn = "task"
    /\ units' = Woken([units EXCEPT ![current].stack = <<>>,
                                    ![current].status = "done",
                                    ![current].result = Me.ret], Me.waiters)
    /\ ready' = ready \o Me.waiters
    /\ current' = 0
    /\ ev' = Event("task_done", Top, None, Me.ret)
    /\ UNCHANGED <<program, envs, environment, output, batch, loop, lexVars, parseVars>>

\* the loop runs the next handle of its current iteration: a task's step,
\* or the stop that run_until_complete asked for
RunHandle ==
    /\ current = 0
    /\ loop \in {"running", "stopping"}
    /\ batch > 0
    /\ LET h == Head(ready)
       IN  IF h = 0
           THEN /\ loop' = "stopping"
                /\ UNCHANGED <<units, current>>
           ELSE /\ units' = [units EXCEPT ![h].status = "running", ![h].started = TRUE]
                /\ current' = h
                /\ UNCHANGED loop
    /\ ready' = Tail(ready)
    /\ batch' = batch - 1
    /\ ev' = NoEv
    /\ UNCHANGED <<program, envs, environment, output, lexVars, parseVars>>

\* BaseEventLoop._run_once / run_forever: an iteration runs the handles that
\* were ready when it began; after the iteration that ran the stop, the loop ends
RunOnce ==
    /\ current = 0
    /\ batch = 0
    /\ IF loop = "stopping"
       THEN /\ loop' = "stopped"
            /\ UNCHANGED batch
       ELSE /\ loop = "running"
            /\ ready # <<>>
            /\ batch' = Len(ready)
            /\ UNCHANGED loop
    /\ ev' = NoEv
    /\ UNCHANGED <<program, envs, environment, units, ready, current, output, lexVars, parseVars>>

\* run_repl: the previous input is over; the next one is handed to
\* interpret on the same Interpreter, whose fields are as the last run left them
RunRepl ==
    /\ current = 0
    /\ program.run = "interpret"
    /\ program.rest # <<>>
    /\ units[1].status = "done"
    /\ program' = [program EXCEPT !.body = Head(program.rest),
                                  !.rest = Tail(program.rest)]
    /\ units' = [units EXCEPT ![1].stack = <<InterpretFrame(Head(program.rest), envs)>>,
                              ![1].status = "running",
                              ![1].ret = Val(None)]
    /\ current' = 1
    /\ ev' = Ev("repl", 1, InterpretFrame(Head(program.rest), envs), environment,
                None, Val(None))
    /\ UNCHANGED <<envs, environment, ready, batch, loop, output, lexVars, parseVars>>

(***************************************************************************)
(* The programs the interpreter is run on, as the parser builds them       *)
(***************************************************************************)

\* the integer arguments the programs are instantiated with: 1..MaxArg
MaxArg == 2
ArgVals == 1..MaxArg

Num(n) == Literal(IntV(n))
\* the operators as the parser writes them: str(TokenType.X)
Plus == "TokenType.PLUS"
Minus == "TokenType.MINUS"
Star == "TokenType.STAR"
Less == "TokenType.LT"
Greater == "TokenType.GT"

\* run by Interpreter.interpret (main.py, repl.py, tests/test_interpreter.py)
Interpreted(name, body) ==
    [name |-> name, run |-> "interpret", body |-> body, rest |-> <<>>]
\* run_repl: one Interpreter, interpret called on each input in turn
Repl(name, inputs) ==
    [name |-> name, run |-> "interpret", body |-> Head(inputs), rest |-> Tail(inputs)]
\* run by tests/test_concurrency.py: the module, then main() under asyncio.run
Concurrent(name, body) ==
    [name |-> name, run |-> "asyncio", body |-> body, rest |-> <<>>]

\* async def leaf(v): return v
DefLeaf == FunctionDef("leaf", <<"v">>, <<Return(Name("v"))>>, TRUE)
\* def add(x, y): return x + y
DefAdd == FunctionDef("add", <<"x", "y">>,
                      <<Return(BinOp(Name("x"), Plus, Name("y")))>>, FALSE)
\* def double(x): return x * 2
DefDouble == FunctionDef("double", <<"x">>,
                         <<Return(BinOp(Name("x"), Star, Num(2)))>>, FALSE)

\* tests/test_interpreter.py test_function
ProgFunction(a, b) == Interpreted("function", <<
    DefAdd,
    Assign("result", Call(Name("add"), <<Num(a), Num(b)>>)) >>)

\* tests/test_interpreter.py test_recursion, fib(a + 1)
ProgRecursion(a) == Interpreted("recursion", <<
    FunctionDef("fib", <<"n">>, <<
        If(BinOp(Name("n"), Less, Num(2)), <<Return(Name("n"))>>, <<>>),
        Return(BinOp(Call(Name("fib"), <<BinOp(Name("n"), Minus, Num(1))>>), Plus,
                     Call(Name("fib"), <<BinOp(Name("n"), Minus, Num(2))>>))) >>, FALSE),
    Assign("result", Call(Name("fib"), <<Num(a + 1)>>)) >>)

\* tests/test_interpreter.py test_pipeline, and a pipe into a bare name
ProgPipeline(a) == Interpreted("pipeline", <<
    DefDouble,
    DefAdd,
    Assign("result", Pipeline(Num(a), Call(Name("double"), <<>>))),
    Assign("again", Pipeline(Name("result"), Name("double"))),
    Assign("sum", Pipeline(Name("again"), Call(Name("add"), <<Num(1)>>))) >>)

\* x = a; if x: x = x + 1; y = x  else: x = 0
\* if x < 0: z = 1  else: w = x
\* v = x
ProgBranches(a) == Interpreted("branches", <<
    Assign("x", Num(a)),
    If(Name("x"),
       <<Assign("x", BinOp(Name("x"), Plus, Num(1))), Assign("y", Name("x"))>>,
       <<Assign("x", Num(0))>>),
    If(BinOp(Name("x"), Less, Num(0)),
       <<Assign("z", Num(1))>>,
       <<Assign("w", Name("x"))>>),
    Assign("v", Name("x")) >>)

\* i = a; while i < a + 1: i = i + 1; j = i     (the test never changes)
ProgLoop(a) == Interpreted("loop", <<
    Assign("i", Num(a)),
    While(BinOp(Name("i"), Less, Num(a + 1)),
          <<Assign("i", BinOp(Name("i"), Plus, Num(1))), Assign("j", Name("i"))>>),
    Assign("after", Name("i")) >>)

\* def first(n): while n < 2: return n
\*               return 0
\* r = first(a)
ProgLoopReturn(a) == Interpreted("loop_return", <<
    FunctionDef("first", <<"n">>, <<
        While(BinOp(Name("n"), Less, Num(2)), <<Return(Name("n"))>>),
        Return(Num(0)) >>, FALSE),
    Assign("r", Call(Name("first"), <<Num(a)>>)) >>)

\* y = 1; def g(): return y; def h(y): return g(); r = h(a + 1)
\* def k(a): a = a + 1; b = 7; return a
\* a = 10; r2 = k(a)
ProgClosure(a) == Interpreted("closure", <<
    Assign("y", Num(1)),
    FunctionDef("g", <<>>, <<Return(Name("y"))>>, FALSE),
    FunctionDef("h", <<"y">>, <<Return(Call(Name("g"), <<>>))>>, FALSE),
    Assign("r", Call(Name("h"), <<Num(a + 1)>>)),
    FunctionDef("k", <<"a">>, <<
        Assign("a", BinOp(Name("a"), Plus, Num(1))),
        Assign("b", Num(7)),
        Return(Name("a")) >>, FALSE),
    Assign("a", Num(10)),
    Assign("r2", Call(Name("k"), <<Name("a")>>)) >>)

\* def g(): return 1;  async def h(): return 2
\* x = spawn g(); z = spawn h(); y = await a
\* def s(): return await a
\* w = s(); c = h()
ProgSyncConcurrency(a) == Interpreted("sync_concurrency", <<
    FunctionDef("g", <<>>, <<Return(Num(1))>>, FALSE),
    FunctionDef("h", <<>>, <<Return(Num(2))>>, TRUE),
    Assign("x", Spawn(Call(Name("g"), <<>>))),
    Assign("z", Spawn(Call(Name("h"), <<>>))),
    Assign("y", Await(Num(a))),
    FunctionDef("s", <<>>, <<Return(Await(Num(a)))>>, FALSE),
    Assign("w", Call(Name("s"), <<>>)),
    Assign("c", Call(Name("h"), <<>>)) >>)

\* f = lambda n: n + 1; l = [f(a), 2]; n = len(l); print(n, sum(l))
ProgValues(a) == Interpreted("values", <<
    Assign("f", Lambda(<<"n">>, BinOp(Name("n"), Plus, Num(1)))),
    Assign("l", ListNode(<<Call(Name("f"), <<Num(a)>>), Num(2)>>)),
    Assign("n", Call(Name("len"), <<Name("l")>>)),
    Call(Name("print"), <<Name("n"), Call(Name("sum"), <<Name("l")>>)>>) >>)

\* x = a; q = nope; y = 1
ProgUndefined(a) == Interpreted("undefined", <<
    Assign("x", Num(a)),
    Assign("q", Name("nope")),
    Assign("y", Num(1)) >>)

\* x = a; r = x(1)
ProgNotCallable(a) == Interpreted("not_callable", <<
    Assign("x", Num(a)),
    Assign("r", Call(Name("x"), <<Num(1)>>)) >>)

\* def inner(x):
\*     if 0 < x:
\*         while x < 3:
\*             return x + 10
\*         z = 1
\*     return 0
\* def outer(x):
\*     r = inner(x)
\*     return r + 1
\* res = outer(a)
ProgReturnNested(a) == Interpreted("return_nested", <<
    FunctionDef("inner", <<"x">>, <<
        If(BinOp(Num(0), Less, Name("x")),
           <<While(BinOp(Name("x"), Less, Num(3)),
                   <<Return(BinOp(Name("x"), Plus, Num(10)))>>),
             Assign("z", Num(1))>>,
           <<>>),
        Return(Num(0)) >>, FALSE),
    FunctionDef("outer", <<"x">>, <<
        Assign("r", Call(Name("inner"), <<Name("x")>>)),
        Return(BinOp(Name("r"), Plus, Num(1))) >>, FALSE),
    Assign("res", Call(Name("outer"), <<Num(a)>>)) >>)

\* x = a; return x; y = 2
ProgTopReturn(a) == Interpreted("top_return", <<
    Assign("x", Num(a)),
    Return(Name("x")),
    Assign("y", Num(2)) >>)

\* x = a
\* if x:
\*     return
\* y = 2
ProgTopReturnBlock(a) == Interpreted("top_return_block", <<
    Assign("x", Num(a)),
    If(Name("x"), <<Return(NoNode)>>, <<>>),
    Assign("y", Num(2)) >>)

\* def f(x, y): return x
\* r = f(a, ..., a)      with n arguments
\* after = 1
ProgArity(a, n) == Interpreted("arity", <<
    FunctionDef("f", <<"x", "y">>, <<Return(Name("x"))>>, FALSE),
    Assign("r", Call(Name("f"), [i \in 1..n |-> Num(a)])),
    Assign("after", Num(1)) >>)

\* p = a |> add(2); q = add(a, 2); p2 = a |> double; q2 = double(a)
ProgPipeEquiv(a) == Interpreted("pipe_equiv", <<
    DefAdd,
    DefDouble,
    Assign("p", Pipeline(Num(a), Call(Name("add"), <<Num(2)>>))),
    Assign("q", Call(Name("add"), <<Num(a), Num(2)>>)),
    Assign("p2", Pipeline(Num(a), Name("double"))),
    Assign("q2", Call(Name("double"), <<Num(a)>>)) >>)

\* the statements of a module, the k-th replaced by `w = u` (u is undefined);
\* k past the end replaces none
\* x = a
\* def g(): return x
\* y = g() + 1
\* if x:
\*     z = 1
FailAtBody(a) == <<
    Assign("x", Num(a)),
    FunctionDef("g", <<>>, <<Return(Name("x"))>>, FALSE),
    Assign("y", BinOp(Call(Name("g"), <<>>), Plus, Num(1))),
    If(Name("x"), <<Assign("z", Num(1))>>, <<>>) >>

ProgFailAt(a, k) == Interpreted("fail_at",
    [i \in 1..Len(FailAtBody(a)) |->
        IF i = k THEN Assign("w", Name("u")) ELSE FailAtBody(a)[i]])

\* first input:                 second input:
\* def f(x):                    s = f(2) + k
\*     if x < 2:
\*         return u
\*     return x
\* k = a
\* r = f(1)
\* after = 1
ProgRepl(a) == Repl("repl", <<
    << FunctionDef("f", <<"x">>, <<
           If(BinOp(Name("x"), Less, Num(2)), <<Return(Name("u"))>>, <<>>),
           Return(Name("x")) >>, FALSE),
       Assign("k", Num(a)),
       Assign("r", Call(Name("f"), <<Num(1)>>)),
       Assign("after", Num(1)) >>,
    << Assign("s", BinOp(Call(Name("f"), <<Num(2)>>), Plus, Name("k"))) >> >>)

\* x = a; r = x(print(1), print(2)); return r
CallNumberBody(a) == <<
    Assign("x", Num(a)),
    Assign("r", Call(Name("x"), <<Call(Name("print"), <<Num(1)>>),
                                  Call(Name("print"), <<Num(2)>>)>>)),
    Return(Name("r")) >>

\* def main(): x = a; r = x(print(1), print(2)); return r
\* main()
ProgCallNumberSync(a) == Interpreted("call_number_sync", <<
    FunctionDef("main", <<>>, CallNumberBody(a), FALSE),
    Call(Name("main"), <<>>) >>)

InterpretedPrograms ==
    {ProgFunction(a, b) : a \in ArgVals, b \in ArgVals}
        \cup {ProgRecursion(a) : a \in ArgVals}
        \cup {ProgPipeline(a) : a \in ArgVals}
        \cup {ProgBranches(a) : a \in ArgVals}
        \cup {ProgLoop(a) : a \in ArgVals}
        \cup {ProgLoopReturn(a) : a \in ArgVals}
        \cup {ProgClosure(a) : a \in ArgVals}
        \cup {ProgSyncConcurrency(a) : a \in ArgVals}
        \cup {ProgValues(a) : a \in ArgVals}
        \cup {ProgUndefined(a) : a \in ArgVals}
        \cup {ProgNotCallable(a) : a \in ArgVals}
        \cup {ProgReturnNested(a) : a \in ArgVals}
        \cup {ProgTopReturn(a) : a \in ArgVals}
        \cup {ProgTopReturnBlock(a) : a \in ArgVals}
        \cup {ProgArity(a, n) : a \in ArgVals, n \in {1, 3}}
        \cup {ProgPipeEquiv(a) : a \in ArgVals}
        \cup {ProgFailAt(a, k) : a \in ArgVals, k \in 1..(Len(FailAtBody(1)) + 1)}
        \cup {ProgRepl(a) : a \in ArgVals}
        \cup {ProgCallNumberSync(a) : a \in ArgVals}

AsyncDef(name, args, body) == FunctionDef(name, args, body, TRUE)
\* async def main(): body
DefMain(body) == AsyncDef("main", <<>>, body)

\* tests/test_concurrency.py test_spawn_await
ProgSpawnAwait == Concurrent("spawn_await", <<
    AsyncDef("get_value", <<>>, <<Return(Num(42))>>),
    DefMain(<<
        Assign("task", Spawn(Call(Name("get_value"), <<>>))),
        Assign("result", Await(Name("task"))),
        Return(Name("result")) >>) >>)

\* tests/test_concurrency.py test_concurrency_execution, with add(a, 20), add(b, 40)
ProgTwoTasks(a, b) == Concurrent("two_tasks", <<
    AsyncDef("add", <<"a", "b">>, <<Return(BinOp(Name("a"), Plus, Name("b")))>>),
    DefMain(<<
        Assign("t1", Spawn(Call(Name("add"), <<Num(a), Num(20)>>))),
        Assign("t2", Spawn(Call(Name("add"), <<Num(b), Num(40)>>))),
        Assign("r1", Await(Name("t1"))),
        Assign("r2", Await(Name("t2"))),
        Return(BinOp(Name("r1"), Plus, Name("r2"))) >>) >>)

\* async def relay(a): t = spawn leaf(0); x = await t; return a
\* async def main(): t1 = spawn relay(a); t2 = spawn relay(b)
\*                   r1 = await t1; r2 = await t2; return [r1, r2]
ProgNested(a, b) == Concurrent("nested", <<
    DefLeaf,
    AsyncDef("relay", <<"a">>, <<
        Assign("t", Spawn(Call(Name("leaf"), <<Num(0)>>))),
        Assign("x", Await(Name("t"))),
        Return(Name("a")) >>),
    DefMain(<<
        Assign("t1", Spawn(Call(Name("relay"), <<Num(a)>>))),
        Assign("t2", Spawn(Call(Name("relay"), <<Num(b)>>))),
        Assign("r1", Await(Name("t1"))),
        Assign("r2", Await(Name("t2"))),
        Return(ListNode(<<Name("r1"), Name("r2")>>)) >>) >>)

\* async def main(): t = spawn leaf(a); p = add(1, await t); q = [await t, 1]
\*                   r = 1 + await t; return [p, r] + q
ProgAwaitPositions(a) == Concurrent("await_positions", <<
    DefLeaf,
    DefAdd,
    DefMain(<<
        Assign("t", Spawn(Call(Name("leaf"), <<Num(a)>>))),
        Assign("p", Call(Name("add"), <<Num(1), Await(Name("t"))>>)),
        Assign("q", ListNode(<<Await(Name("t")), Num(1)>>)),
        Assign("r", BinOp(Num(1), Plus, Await(Name("t")))),
        Return(BinOp(ListNode(<<Name("p"), Name("r")>>), Plus, Name("q"))) >>) >>)

\* async def main(): t = spawn leaf(a); r = await t |> double; return r
ProgAwaitPipeLeft(a) == Concurrent("await_pipe_left", <<
    DefLeaf,
    DefDouble,
    DefMain(<<
        Assign("t", Spawn(Call(Name("leaf"), <<Num(a)>>))),
        Assign("r", Pipeline(Await(Name("t")), Name("double"))),
        Return(Name("r")) >>) >>)

\* async def main(): t = spawn leaf(a); r = 1 |> add(await t); return r
ProgAwaitPipeArg(a) == Concurrent("await_pipe_arg", <<
    DefLeaf,
    DefAdd,
    DefMain(<<
        Assign("t", Spawn(Call(Name("leaf"), <<Num(a)>>))),
        Assign("r", Pipeline(Num(1), Call(Name("add"), <<Await(Name("t"))>>))),
        Return(Name("r")) >>) >>)

\* def g(): return 1
\* async def main(): n = a; x = spawn <callee>(); return 0
\* with callee g (a sync closure), len (a built-in) or n (not callable)
ProgSpawnOther(a, callee) == Concurrent("spawn_other", <<
    FunctionDef("g", <<>>, <<Return(Num(1))>>, FALSE),
    DefMain(<<
        Assign("n", Num(a)),
        Assign("x", Spawn(Call(Name(callee), <<>>))),
        Return(Num(0)) >>) >>)

\* def s(): return await a
\* async def main(): y = await a; return [y, s()]
ProgAwaitPlain(a) == Concurrent("await_plain", <<
    FunctionDef("s", <<>>, <<Return(Await(Num(a)))>>, FALSE),
    DefMain(<<
        Assign("y", Await(Num(a))),
        Return(ListNode(<<Name("y"), Call(Name("s"), <<>>)>>)) >>) >>)

\* async def waiter(a): t = spawn leaf(a); x = await t; return x
\* async def main(): t = spawn waiter(a); return 1
ProgDetached(a) == Concurrent("detached", <<
    DefLeaf,
    AsyncDef("waiter", <<"a">>, <<
        Assign("t", Spawn(Call(Name("leaf"), <<Name("a")>>))),
        Assign("x", Await(Name("t"))),
        Return(Name("x")) >>),
    DefMain(<<
        Assign("t", Spawn(Call(Name("waiter"), <<Num(a)>>))),
        Return(Num(1)) >>) >>)

\* async def spin(): while True: x = 1
\* async def main(): t = spawn spin(); return a
ProgSpin(a) == Concurrent("spin", <<
    AsyncDef("spin", <<>>, <<
        While(Literal(BoolV(TRUE)), <<Assign("x", Num(1))>>) >>),
    DefMain(<<
        Assign("t", Spawn(Call(Name("spin"), <<>>))),
        Return(Num(a)) >>) >>)

\* async def helper(n): return n + 1
\* async def main(): r = helper(a); c = a |> helper; s = await c
\*                   if r > 1: r = r * 2
\*                   return [r, s]
ProgInline(a) == Concurrent("inline", <<
    AsyncDef("helper", <<"n">>, <<Return(BinOp(Name("n"), Plus, Num(1)))>>),
    DefMain(<<
        Assign("r", Call(Name("helper"), <<Num(a)>>)),
        Assign("c", Pipeline(Num(a), Name("helper"))),
        Assign("s", Await(Name("c"))),
        If(BinOp(Name("r"), Greater, Num(1)),
           <<Assign("r", BinOp(Name("r"), Star, Num(2)))>>, <<>>),
        Return(ListNode(<<Name("r"), Name("s")>>)) >>) >>)

\* async def inc(x): return x + 1
\* async def main(): p = a |> inc(); q = inc(a); p2 = a |> double; q2 = double(a)
\*                   return [q, q2]
ProgPipeEquivAsync(a) == Concurrent("pipe_equiv_async", <<
    AsyncDef("inc", <<"x">>, <<Return(BinOp(Name("x"), Plus, Num(1)))>>),
    DefDouble,
    DefMain(<<
        Assign("p", Pipeline(Num(a), Call(Name("inc"), <<>>))),
        Assign("q", Call(Name("inc"), <<Num(a)>>)),
        Assign("p2", Pipeline(Num(a), Name("double"))),
        Assign("q2", Call(Name("double"), <<Num(a)>>)),
        Return(ListNode(<<Name("q"), Name("q2")>>)) >>) >>)

\* async def say(v): print(v); return v
DefSay == AsyncDef("say", <<"v">>, <<
    Call(Name("print"), <<Name("v")>>),
    Return(Name("v")) >>)

\* async def main(): t = spawn say(a); x = await t; y = await t; return [x, y]
ProgAwaitTwice(a) == Concurrent("await_twice", <<
    DefSay,
    DefMain(<<
        Assign("t", Spawn(Call(Name("say"), <<Num(a)>>))),
        Assign("x", Await(Name("t"))),
        Assign("y", Await(Name("t"))),
        Return(ListNode(<<Name("x"), Name("y")>>)) >>) >>)

\* async def bad(): return nope
DefBad == AsyncDef("bad", <<>>, <<Return(Name("nope"))>>)

\* async def main(): t = spawn bad(); print(a); r = await t; return 3
ProgSpawnFails(a) == Concurrent("spawn_fails", <<
    DefBad,
    DefMain(<<
        Assign("t", Spawn(Call(Name("bad"), <<>>))),
        Call(Name("print"), <<Num(a)>>),
        Assign("r", Await(Name("t"))),
        Return(Num(3)) >>) >>)

\* async def main(): t = spawn bad(); print(a); return 3
ProgSpawnFailsUnawaited(a) == Concurrent("spawn_fails_unawaited", <<
    DefBad,
    DefMain(<<
        Assign("t", Spawn(Call(Name("bad"), <<>>))),
        Call(Name("print"), <<Num(a)>>),
        Return(Num(3)) >>) >>)

\* async def main(): x = a; r = x(print(1), print(2)); return r
ProgCallNumber(a) == Concurrent("call_number", <<DefMain(CallNumberBody(a))>>)

ConcurrentPrograms ==
    {ProgSpawnAwait}
        \cup {ProgCallNumber(a) : a \in ArgVals}
        \cup {ProgSpawnFails(a) : a \in ArgVals}
        \cup {ProgSpawnFailsUnawaited(a) : a \in ArgVals}
        \cup {ProgAwaitTwice(a) : a \in ArgVals}
        \cup {ProgTwoTasks(a, b) : a \in ArgVals, b \in ArgVals}
        \cup {ProgNested(a, b) : a \in ArgVals, b \in ArgVals}
        \cup {ProgAwaitPositions(a) : a \in ArgVals}
        \cup {ProgAwaitPipeLeft(a) : a \in ArgVals}
        \cup {ProgAwaitPipeArg(a) : a \in ArgVals}
        \cup {ProgSpawnOther(a, c) : a \in ArgVals, c \in {"g", "len", "n"}}
        \cup {ProgAwaitPlain(a) : a \in ArgVals}
        \cup {ProgDetached(a) : a \in ArgVals}
        \cup {ProgSpin(a) : a \in ArgVals}
        \cup {ProgInline(a) : a \in ArgVals}
        \cup {ProgPipeEquivAsync(a) : a \in ArgVals}

Programs == InterpretedPrograms \cup ConcurrentPrograms

(***************************************************************************)
(* Specifications                                                          *)
(***************************************************************************)

\* the unit that runs the program: under interpret() it is the only one and
\* there is no loop; under asyncio.run it is the loop's first task, whose
\* done-callback stops the loop (handle 0)
RootUnit(p) ==
    [stack |-> IF p.run = "interpret"
               THEN <<InterpretFrame(p.body, <<GlobalEnvironment>>)>>
               ELSE <<Frame("task", "async", NoNode, 1, <<>>, 0),
                      Frame("run_async_code", "async", Block(p.body), 0, <<>>, 0)>>,
     ret |-> Val(None),
     status |-> IF p.run = "interpret" THEN "running" ELSE "ready",
     waiting_on |-> 0,
     waiters |-> IF p.run = "interpret" THEN <<>> ELSE <<0>>,
     result |-> Val(None),
     started |-> p.run = "interpret",
     func |-> None, args |-> <<>>]

\* no program is loaded
InterpIdle ==
    /\ program = Interpreted("", <<>>)
    /\ envs = <<GlobalEnvironment>>
    /\ environment = 1
    /\ units = <<>>
    /\ ready = <<>>
    /\ batch = 0
    /\ loop = "off"
    /\ current = 0
    /\ output = <<>>
    /\ ev = NoEv

\* no token list is being parsed
\* what a run of tokenize and parse gave: the tokens, how tokenize ended and
\* on which line, the statements, how parse ended and with which message
Outcome(toks, lexed, ln, body, parsed, message) ==
    [tokens |-> toks, lexed |-> lexed, line |-> ln, body |-> body,
     parsed |-> parsed, error |-> message]

\* no run has ended yet
NoRun == Outcome(<<>>, "idle", 0, <<>>, "idle", "")

ParseIdle ==
    /\ parser_tokens = <<>>
    /\ parser_pos = 0
    /\ module_body = <<>>
    /\ parse_error = ""
    /\ parseState = "idle"
    /\ first_run = NoRun

\* no source is being tokenized
LexIdle ==
    /\ source = <<>>
    /\ pos = 0
    /\ line = 1
    /\ column = 1
    /\ tokens = <<>>
    /\ indent_stack = <<0>>
    /\ lexState = "idle"

\* Interpreter.__init__, then the run of one program
InterpInit ==
    /\ program \in Programs
    /\ envs = <<GlobalEnvironment>>
    /\ environment = 1
    /\ units = <<RootUnit(program)>>
    /\ ready = IF program.run = "interpret" THEN <<>> ELSE <<1>>
    /\ batch = 0
    /\ loop = IF program.run = "interpret" THEN "off" ELSE "running"
    /\ current = IF program.run = "interpret" THEN 1 ELSE 0
    /\ output = <<>>
    /\ ev = NoEv
    /\ LexIdle
    /\ ParseIdle

InterpNext ==
    \/ Unwind
    \/ EvaluateLiteral
    \/ EvaluateName
    \/ EvaluateBinOp
    \/ EvaluateCall
    \/ EvaluatePipeline
    \/ EvaluateLambda
    \/ EvaluateList
    \/ EvaluateSpawn
    \/ EvaluateAwait
    \/ ExecuteFunctionDef
    \/ ExecuteReturn
    \/ ExecuteAssign
    \/ ExecuteIf
    \/ ExecuteWhile
    \/ ExecuteExpr
    \/ ExecuteBlock
    \/ FunctionCall
    \/ Interpret
    \/ RunRepl
    \/ RunAsyncCode
    \/ TaskDone
    \/ RunHandle
    \/ RunOnce

Spec == InterpInit /\ [][InterpNext]_vars

\* the same runs, where the interpreter and the loop keep taking steps while
\* they can: Python executes the next statement, asyncio the next handle
FairSpec == InterpInit /\ [][InterpNext]_vars /\ WF_vars(InterpNext)

(***************************************************************************)
(* Source texts: up to MaxLines lines, each some leading blanks followed   *)
(* by an identifier or a comment, or blank, joined by newlines.            *)
(***************************************************************************)
LineBodies == {<<"a">>, <<"#">>}

Blanks(n) == [i \in 1..n |-> " "]

\* an empty line, a line of blanks only, and the indented bodies
SourceLines ==
    {<<>>, Blanks(MaxIndent)}
        \cup {Blanks(n) \o b : n \in 0..MaxIndent, b \in LineBodies}

RECURSIVE JoinLines(_)
JoinLines(ls) ==
    IF Len(ls) = 0 THEN <<>>
    ELSE IF Len(ls) = 1 THEN ls[1]
    ELSE ls[1] \o <<"\n">> \o JoinLines(Tail(ls))

Sources == {JoinLines(ls) : ls \in UNION {[1..n -> SourceLines] : n \in 0..MaxLines}}

\* tests/test_lexer.py: test_basic_tokens, test_indentation, test_pipeline
TestSources == {
    <<"x", " ", "=", " ", "1", "0", " ", "+", " ", "2", "0">>,
    <<"\n", "d", "e", "f", " ", "f", "o", "o", "(", ")", ":", "\n", " ", " ", " ",
      " ", "x", " ", "=", " ", "1", "\n", " ", " ", " ", " ", "i", "f", " ", "x",
      ":", "\n", " ", " ", " ", " ", " ", " ", " ", " ", "r", "e", "t", "u", "r",
      "n", " ", "x", "\n">>,
    <<"d", "a", "t", "a", " ", "|", ">", " ", "m", "a", "p", "(", "f", ")">> }

\* a        a
\*   a        a
\*     a        a
\*  a
DedentSources == {
    <<"a", "\n", " ", " ", "a", "\n", " ", " ", " ", " ", "a", "\n", " ", "a">>,
    <<"a", "\n", " ", " ", "a", "\n", " ", " ", " ", " ", "a">> }

\* ²   1²   x = ²   a²   a @
OddSources == {
    <<"²">>,
    <<"1", "²">>,
    <<"x", " ", "=", " ", "²">>,
    <<"a", "²">>,
    <<"a", " ", "@">> }

\* Lexer.__init__
LexInit ==
    /\ source \in Sources \cup TestSources \cup DedentSources \cup OddSources
    /\ pos = 0
    /\ line = 1
    /\ column = 1
    /\ tokens = <<>>
    /\ indent_stack = <<0>>
    /\ lexState = "scanning"
    /\ InterpIdle
    /\ ParseIdle

LexNext ==
    \/ SkipComment
    \/ HandleNewline
    \/ AdvanceSpace
    \/ ReadIdentifier
    \/ ReadNumber
    \/ HandleSymbol
    \/ HandleEof

SpecLex == LexInit /\ [][LexNext]_vars

(***************************************************************************)
(* Parser: recursive descent over the token list. Every method is given    *)
(* the tokens and the position it starts at and yields the node it returns *)
(* with the position it leaves, or the ParserError it raises.              *)
(***************************************************************************)

\* a token as the parser reads it: type and value only
Tok(type, value) == Token(type, value, 1, 1)

\* str(op) of a TokenType
OpName(type) == "TokenType." \o type

Parsed(node, p) == [ok |-> TRUE, node |-> node, pos |-> p, msg |-> ""]
ParserError(message, p) == [ok |-> FALSE, node |-> NoNode, pos |-> p, msg |-> message]

peek(toks, p) == toks[p + 1]
is_at_end(toks, p) == peek(toks, p).type = "EOF"
check(toks, p, type) == ~is_at_end(toks, p) /\ peek(toks, p).type = type
\* match(*types): some type checks (the caller then stands one token further)
match(toks, p, types) == ~is_at_end(toks, p) /\ peek(toks, p).type \in types
\* consume: the token's value, or the error
consume(toks, p, type, message) ==
    IF check(toks, p, type) THEN Parsed(peek(toks, p).value, p + 1)
    ELSE ParserError(message, p)

RECURSIVE expression(_, _)
RECURSIVE expressions(_, _, _)
RECURSIVE unary(_, _)
RECURSIVE term(_, _)
RECURSIVE declaration(_, _)
RECURSIVE block_loop(_, _, _)

\* `while True: args.append(consume(IDENTIFIER, ...)); if not match(COMMA): break`
RECURSIVE parameters(_, _, _)
parameters(toks, p, acc) ==
    LET name == consume(toks, p, "IDENTIFIER", "Expected parameter name")
    IN  IF ~name.ok THEN name
        ELSE IF check(toks, name.pos, "COMMA")
        THEN parameters(toks, name.pos + 1, Append(acc, name.node))
        ELSE Parsed(Append(acc, name.node), name.pos)

\* `args.append(e); if not match(COMMA): break`, e the expression just parsed
expressions_append(toks, e, acc) ==
    IF ~e.ok THEN e
    ELSE IF check(toks, e.pos, "COMMA")
    THEN expressions(toks, e.pos + 1, Append(acc, e.node))
    ELSE Parsed(Append(acc, e.node), e.pos)

\* `while True: args.append(self.expression()); if not match(COMMA): break`
expressions(toks, p, acc) == expressions_append(toks, expression(toks, p), acc)

\* `self.consume(closing, message)` after what was parsed inside the brackets
closed(toks, inner, closing, message) ==
    IF ~inner.ok THEN inner
    ELSE LET c == consume(toks, inner.pos, closing, message)
         IN  IF ~c.ok THEN c ELSE Parsed(inner.node, c.pos)

\* a list of expressions up to the closing token, possibly empty
enclosed(toks, p, closing, message) ==
    closed(toks, IF check(toks, p, closing) THEN Parsed(<<>>, p)
                 ELSE expressions(toks, p, <<>>),
           closing, message)

\* `return ast.Lambda(args, body)`
lambda_of(args, body) ==
    IF ~body.ok THEN body ELSE Parsed(Lambda(args, body.node), body.pos)

\* primary: `lambda args: body`
lambda(toks, p) ==
    LET ps == IF check(toks, p, "COLON") THEN Parsed(<<>>, p)
              ELSE parameters(toks, p, <<>>)
    IN  IF ~ps.ok THEN ps
        ELSE LET c == consume(toks, ps.pos, "COLON", "Expected ':' after lambda args")
             IN  IF ~c.ok THEN c
                 ELSE lambda_of(ps.node, expression(toks, c.pos))

\* `return ast.List(elements)`
list_of(elements) ==
    IF ~elements.ok THEN elements ELSE Parsed(ListNode(elements.node), elements.pos)

primary(toks, p) ==
    LET tok == peek(toks, p)
    IN  IF is_at_end(toks, p) THEN ParserError("Expect expression", p)
        ELSE CASE tok.type = "FALSE" -> Parsed(Literal(BoolV(FALSE)), p + 1)
               [] tok.type = "TRUE" -> Parsed(Literal(BoolV(TRUE)), p + 1)
               [] tok.type = "NONE" -> Parsed(Literal(None), p + 1)
               [] tok.type = "NUMBER" -> Parsed(Literal(IntV(tok.value)), p + 1)
               [] tok.type = "STRING" ->
                     Parsed(Literal([t |-> "str", v |-> tok.value]), p + 1)
               [] tok.type = "IDENTIFIER" -> Parsed(Name(tok.value), p + 1)
               [] tok.type = "LPAREN" ->
                     closed(toks, expression(toks, p + 1), "RPAREN",
                            "Expected ')' after expression")
               [] tok.type = "LBRACKET" ->
                     list_of(enclosed(toks, p + 1, "RBRACKET",
                                      "Expected ']' after list elements"))
               [] tok.type = "LAMBDA" -> lambda(toks, p + 1)
               [] OTHER -> ParserError("Expect expression", p)

\* `expr = ast.Call(expr, args)`
call_of(expr, args) ==
    IF ~args.ok THEN args ELSE Parsed(Call(expr.node, args.node), args.pos)

\* call: `while True: if match(LPAREN): ... expr = ast.Call(expr, args)`
RECURSIVE call_loop(_, _)
call_loop(toks, expr) ==
    IF ~expr.ok THEN expr
    ELSE IF check(toks, expr.pos, "LPAREN")
    THEN call_loop(toks, call_of(expr, enclosed(toks, expr.pos + 1, "RPAREN",
                                                "Expected ')' after arguments")))
    ELSE expr

call(toks, p) == call_loop(toks, primary(toks, p))

\* `return ast.Spawn(call_expr)`
spawn_of(call_expr) ==
    IF ~call_expr.ok THEN call_expr ELSE Parsed(Spawn(call_expr.node), call_expr.pos)

\* `return ast.Await(value)`
await_of(value) ==
    IF ~value.ok THEN value ELSE Parsed(Await(value.node), value.pos)

\* `return ast.BinOp(ast.Literal(0), '-', right)`
negated(right) ==
    IF ~right.ok THEN right
    ELSE Parsed(BinOp(Literal(IntV(0)), "-", right.node), right.pos)

unary(toks, p) ==
    IF check(toks, p, "SPAWN") THEN spawn_of(call(toks, p + 1))
    ELSE IF check(toks, p, "AWAIT") THEN await_of(unary(toks, p + 1))
    ELSE IF check(toks, p, "MINUS") THEN negated(unary(toks, p + 1))
    ELSE call(toks, p)

\* `expr = ast.BinOp(expr, str(op), right)`
binop_of(expr, op, right) ==
    IF ~right.ok THEN right
    ELSE Parsed(BinOp(expr.node, OpName(op), right.node), right.pos)

\* factor: `while match(SLASH, STAR): right = self.unary()`
RECURSIVE factor_loop(_, _)
factor_loop(toks, expr) ==
    IF ~expr.ok THEN expr
    ELSE IF match(toks, expr.pos, {"SLASH", "STAR"})
    THEN factor_loop(toks, binop_of(expr, peek(toks, expr.pos).type,
                                    unary(toks, expr.pos + 1)))
    ELSE expr

factor(toks, p) == factor_loop(toks, unary(toks, p))

\* a term whose right operand is the rest of the term: a - (b - c)
term_loop_right(toks, expr) ==
    IF ~expr.ok THEN expr
    ELSE IF match(toks, expr.pos, {"MINUS", "PLUS"})
    THEN binop_of(expr, peek(toks, expr.pos).type, term(toks, expr.pos + 1))
    ELSE expr

\* term: `while match(MINUS, PLUS): right = self.factor()`
RECURSIVE term_loop(_, _)
term_loop(toks, expr) ==
    IF ~expr.ok THEN expr
    ELSE IF match(toks, expr.pos, {"MINUS", "PLUS"})
    THEN term_loop(toks, binop_of(expr, peek(toks, expr.pos).type,
                                  factor(toks, expr.pos + 1)))
    ELSE expr

term(toks, p) == term_loop(toks, factor(toks, p))

\* comparison: `while match(GT, GTE, LT, LTE): right = self.term()`
RECURSIVE comparison_loop(_, _)
comparison_loop(toks, expr) ==
    IF ~expr.ok THEN expr
    ELSE IF match(toks, expr.pos, {"GT", "GTE", "LT", "LTE"})
    THEN comparison_loop(toks, binop_of(expr, peek(toks, expr.pos).type,
                                        term(toks, expr.pos + 1)))
    ELSE expr

comparison(toks, p) == comparison_loop(toks, term(toks, p))

\* equality: `while match(EQEQ, NEQ): right = self.comparison()`
RECURSIVE equality_loop(_, _)
equality_loop(toks, expr) ==
    IF ~expr.ok THEN expr
    ELSE IF match(toks, expr.pos, {"EQEQ", "NEQ"})
    THEN equality_loop(toks, binop_of(expr, peek(toks, expr.pos).type,
                                      comparison(toks, expr.pos + 1)))
    ELSE expr

equality(toks, p) == equality_loop(toks, comparison(toks, p))

\* `expr = ast.Pipeline(expr, right)`
pipeline_of(expr, right) ==
    IF ~right.ok THEN right ELSE Parsed(Pipeline(expr.node, right.node), right.pos)

\* a |> f(xs) rewritten to the call f(a, xs), a |> f to f(a)
call_for_pipe(expr, right) ==
    IF ~right.ok THEN right
    ELSE Parsed(IF right.node.node = "Call"
                THEN Call(right.node.func, <<expr.node>> \o right.node.args)
                ELSE Call(right.node, <<expr.node>>), right.pos)

\* a pipeline that rewrites each pipe to a call while parsing
RECURSIVE pipeline_loop_rewriting(_, _)
pipeline_loop_rewriting(toks, expr) ==
    IF ~expr.ok THEN expr
    ELSE IF check(toks, expr.pos, "PIPE")
    THEN pipeline_loop_rewriting(toks, call_for_pipe(expr, equality(toks, expr.pos + 1)))
    ELSE expr

\* pipeline: `while match(PIPE): right = self.equality(); expr = ast.Pipeline(expr, right)`
RECURSIVE pipeline_loop(_, _)
pipeline_loop(toks, expr) ==
    IF ~expr.ok THEN expr
    ELSE IF check(toks, expr.pos, "PIPE")
    THEN pipeline_loop(toks, pipeline_of(expr, equality(toks, expr.pos + 1)))
    ELSE expr

pipeline(toks, p) == pipeline_loop(toks, equality(toks, p))

expression(toks, p) == pipeline(toks, p)

\* `if stmt: statements.append(stmt)`, stmt the declaration just parsed
block_append(toks, stmt, statements) ==
    IF ~stmt.ok THEN stmt
    ELSE block_loop(toks, stmt.pos, IF stmt.node = NoNode THEN statements
                                    ELSE Append(statements, stmt.node))

\* block: the declarations up to the DEDENT
block_loop(toks, p, statements) ==
    IF ~check(toks, p, "DEDENT") /\ ~is_at_end(toks, p)
    THEN block_append(toks, declaration(toks, p), statements)
    ELSE LET c == consume(toks, p, "DEDENT", "Expected dedent")
         IN  IF ~c.ok THEN c ELSE Parsed(statements, c.pos)

block(toks, p) ==
    LET c == consume(toks, p, "INDENT", "Expected indentation")
    IN  IF ~c.ok THEN c ELSE block_loop(toks, c.pos, <<>>)

\* `:` NEWLINE and the block that follows a header
suite(toks, p, colon_message, newline_message) ==
    LET c == consume(toks, p, "COLON", colon_message)
    IN  IF ~c.ok THEN c
        ELSE LET n == consume(toks, c.pos, "NEWLINE", newline_message)
             IN  IF ~n.ok THEN n ELSE block(toks, n.pos)

\* `self.consume(NEWLINE, ...); return ast.Return(value)`
return_of(toks, value) ==
    IF ~value.ok THEN value
    ELSE LET c == consume(toks, value.pos, "NEWLINE", "Expected newline after return")
         IN  IF ~c.ok THEN c ELSE Parsed(Return(value.node), c.pos)

return_stmt(toks, p) ==
    return_of(toks, IF check(toks, p, "NEWLINE") THEN Parsed(NoNode, p)
                    ELSE expression(toks, p))

\* `return ast.If(test, body, orelse)`
if_of(test, body, orelse) ==
    IF ~orelse.ok THEN orelse
    ELSE Parsed(If(test.node, body.node, orelse.node), orelse.pos)

\* `orelse = []; if self.match(ELSE): ... orelse = self.block()`
if_orelse(toks, test, body) ==
    IF ~body.ok THEN body
    ELSE IF check(toks, body.pos, "ELSE")
    THEN if_of(test, body, suite(toks, body.pos + 1, "Expected ':' after else",
                                 "Expected newline after else header"))
    ELSE Parsed(If(test.node, body.node, <<>>), body.pos)

\* the header's end and the body, after the condition
if_body(toks, test) ==
    IF ~test.ok THEN test
    ELSE if_orelse(toks, test, suite(toks, test.pos, "Expected ':' after if condition",
                                     "Expected newline after if header"))

if_stmt(toks, p) == if_body(toks, expression(toks, p))

\* `return ast.While(test, body)`
while_of(test, body) ==
    IF ~body.ok THEN body ELSE Parsed(While(test.node, body.node), body.pos)

\* the header's end and the body, after the condition
while_body(toks, test) ==
    IF ~test.ok THEN test
    ELSE while_of(test, suite(toks, test.pos, "Expected ':' after while condition",
                              "Expected newline after while header"))

while_stmt(toks, p) == while_body(toks, expression(toks, p))

\* an `=` after any left-hand side makes an assignment-free statement of it
target_accepted(toks, p) == Parsed(NoNode, p)

\* statement: `raise ParserError("Invalid assignment target", self.peek())`
invalid_target(toks, p) == ParserError("Invalid assignment target", p)

\* `self.consume(NEWLINE, ...); return ast.Assign(expr.id, value)`
assign_of(toks, target, value) ==
    IF ~value.ok THEN value
    ELSE LET c == consume(toks, value.pos, "NEWLINE", "Expected newline after assignment")
         IN  IF ~c.ok THEN c ELSE Parsed(Assign(target, value.node), c.pos)

\* statement, after `expr = self.expression()`: an assignment or an
\* expression statement
assignment(toks, expr) ==
    IF ~expr.ok THEN expr
    ELSE IF check(toks, expr.pos, "EQ")
    THEN IF expr.node.node = "Name"
         THEN assign_of(toks, expr.node.id, expression(toks, expr.pos + 1))
         ELSE invalid_target(toks, expr.pos + 1)
    ELSE LET c == consume(toks, expr.pos, "NEWLINE", "Expected newline after expression")
         IN  IF ~c.ok THEN c ELSE Parsed(expr.node, c.pos)

\* an empty statement that leaves its NEWLINE where it is
empty_statement_unmatched(p) == Parsed(NoNode, p)

\* `if self.match(TokenType.NEWLINE): return None`, the NEWLINE being at p
empty_statement(p) == Parsed(NoNode, p + 1)

statement(toks, p) ==
    IF check(toks, p, "RETURN") THEN return_stmt(toks, p + 1)
    ELSE IF check(toks, p, "IF") THEN if_stmt(toks, p + 1)
    ELSE IF check(toks, p, "WHILE") THEN while_stmt(toks, p + 1)
    ELSE IF check(toks, p, "NEWLINE") THEN empty_statement(p)
    ELSE assignment(toks, expression(toks, p))

\* `return ast.FunctionDef(name, args, body, is_async)`
function_of(name, args, body, is_async) ==
    IF ~body.ok THEN body
    ELSE Parsed(FunctionDef(name, args, body.node, is_async), body.pos)

\* `self.consume(RPAREN, ...)` and the body, after the parameters
function_body(toks, name, args, is_async) ==
    IF ~args.ok THEN args
    ELSE LET r == consume(toks, args.pos, "RPAREN", "Expected ')' after parameters")
         IN  IF ~r.ok THEN r
             ELSE function_of(name, args.node,
                              suite(toks, r.pos, "Expected ':' before function body",
                                    "Expected newline after function header"),
                              is_async)

function_def(toks, p, is_async) ==
    LET name == consume(toks, p, "IDENTIFIER", "Expected function name")
    IN  IF ~name.ok THEN name
        ELSE LET l == consume(toks, name.pos, "LPAREN", "Expected '(' after function name")
             IN  IF ~l.ok THEN l
                 ELSE function_body(toks, name.node,
                                    IF check(toks, l.pos, "RPAREN") THEN Parsed(<<>>, l.pos)
                                    ELSE parameters(toks, l.pos, <<>>),
                                    is_async)

\* backtrack: `self.pos -= 1`
backtrack(p) == p - 1

\* declaration (a leading SPAWN is matched and given back: statement)
declaration(toks, p) ==
    IF check(toks, p, "DEF") THEN function_def(toks, p + 1, FALSE)
    ELSE IF check(toks, p, "ASYNC")
    THEN IF check(toks, p + 1, "DEF") THEN function_def(toks, p + 2, TRUE)
         ELSE ParserError("Expected 'def' after 'async'", p + 1)
    ELSE IF check(toks, p, "SPAWN") THEN statement(toks, backtrack(p + 1))
    ELSE statement(toks, p)

\* one turn of parse's loop, after `stmt = self.declaration()`
parse_append(stmt) ==
    IF stmt.ok
    THEN /\ parser_pos' = stmt.pos
         /\ module_body' = IF stmt.node = NoNode THEN module_body
                           ELSE Append(module_body, stmt.node)
         /\ UNCHANGED <<parse_error, parseState>>
    ELSE /\ parser_pos' = stmt.pos
         /\ parse_error' = stmt.msg
         /\ parseState' = "error"
         /\ UNCHANGED module_body

\* parse: `while not self.is_at_end(): stmt = self.declaration(); if stmt: body.append(stmt)`
ParseDeclaration ==
    /\ parseState = "parsing"
    /\ ~is_at_end(parser_tokens, parser_pos)
    /\ parse_append(declaration(parser_tokens, parser_pos))
    /\ UNCHANGED <<parser_tokens, first_run, lexVars, interpVars>>

\* parse: `return ast.Module(body=body)`
ParseReturn ==
    /\ parseState = "parsing"
    /\ is_at_end(parser_tokens, parser_pos)
    /\ parseState' = "parsed"
    /\ UNCHANGED <<parser_tokens, parser_pos, module_body, parse_error, first_run,
                   lexVars, interpVars>>

(***************************************************************************)
(* Token lists given to the parser, as tokenize yields them: the tokens of *)
(* the source, a NEWLINE after the last line, the DEDENTs, EOF.            *)
(***************************************************************************)
Id(name) == Tok("IDENTIFIER", name)
NumTok(n) == Tok("NUMBER", n)
Sym(type) == Tok(type, "")

\* handle_eof after a last line at indentation 0
Finish(toks) == toks \o <<Sym("NEWLINE"), Sym("EOF")>>

\* operands of the longest operator chains
MaxOperands == 3

ChainOperands == {Id("a"), NumTok(1)}
ChainOperators == {"PLUS", "MINUS", "STAR", "SLASH", "PIPE", "LT"}

\* operand (operator operand)*, n operands
RECURSIVE Chains(_)
Chains(n) ==
    IF n = 1 THEN {<<o>> : o \in ChainOperands}
    ELSE {c \o <<Sym(op), o>> : c \in Chains(n - 1), op \in ChainOperators,
                                o \in ChainOperands}

\* a   1   f()   f(a)   f()()   (a)   (a + 1)   [a]   lambda x: x
Atoms == {
    <<Id("a")>>,
    <<NumTok(1)>>,
    <<Id("f"), Sym("LPAREN"), Sym("RPAREN")>>,
    <<Id("f"), Sym("LPAREN"), Id("a"), Sym("RPAREN")>>,
    <<Id("f"), Sym("LPAREN"), Sym("RPAREN"), Sym("LPAREN"), Sym("RPAREN")>>,
    <<Sym("LPAREN"), Id("a"), Sym("RPAREN")>>,
    <<Sym("LPAREN"), Id("a"), Sym("PLUS"), NumTok(1), Sym("RPAREN")>>,
    <<Sym("LBRACKET"), Id("a"), Sym("RBRACKET")>>,
    <<Sym("LAMBDA"), Id("x"), Sym("COLON"), Id("x")>> }

\* an atom, bare or after spawn, await or a minus sign
Operands ==
    {pre \o x : pre \in {<<>>, <<Sym("SPAWN")>>, <<Sym("AWAIT")>>, <<Sym("MINUS")>>},
                x \in Atoms}

\* operand |> stage and operand + stage, stage one of f, f(a), 1
Pairs ==
    {l \o <<Sym(op)>> \o r :
        l \in Operands, op \in {"PIPE", "PLUS"},
        r \in {<<Id("f")>>, <<Id("f"), Sym("LPAREN"), Id("a"), Sym("RPAREN")>>,
               <<NumTok(1)>>}}

\* lhs = rhs, rhs one of 1, a + 1
Assignments ==
    {l \o <<Sym("EQ")>> \o r :
        l \in Operands \cup Chains(1) \cup Chains(2),
        r \in {<<NumTok(1)>>, <<Id("a"), Sym("PLUS"), NumTok(1)>>}}

\* def add(a, b):            async def f():        if a:          while a:
\*     return a + b              return                b              a = 1
\*                                                 else:          spawn f()
\*                                                     c
\* async a        a a        spawn        a |>
Blocks == {
    <<Sym("DEF"), Id("add"), Sym("LPAREN"), Id("a"), Sym("COMMA"), Id("b"),
      Sym("RPAREN"), Sym("COLON"), Sym("NEWLINE"), Sym("INDENT"),
      Sym("RETURN"), Id("a"), Sym("PLUS"), Id("b"), Sym("NEWLINE"),
      Sym("DEDENT"), Sym("EOF")>>,
    <<Sym("ASYNC"), Sym("DEF"), Id("f"), Sym("LPAREN"), Sym("RPAREN"), Sym("COLON"),
      Sym("NEWLINE"), Sym("INDENT"), Sym("RETURN"), Sym("NEWLINE"),
      Sym("DEDENT"), Sym("EOF")>>,
    <<Sym("IF"), Id("a"), Sym("COLON"), Sym("NEWLINE"), Sym("INDENT"),
      Id("b"), Sym("NEWLINE"), Sym("DEDENT"),
      Sym("ELSE"), Sym("COLON"), Sym("NEWLINE"), Sym("INDENT"),
      Id("c"), Sym("NEWLINE"), Sym("DEDENT"), Sym("EOF")>>,
    <<Sym("WHILE"), Id("a"), Sym("COLON"), Sym("NEWLINE"), Sym("INDENT"),
      Id("a"), Sym("EQ"), NumTok(1), Sym("NEWLINE"), Sym("DEDENT"),
      Sym("SPAWN"), Id("f"), Sym("LPAREN"), Sym("RPAREN"), Sym("NEWLINE"),
      Sym("EOF")>>,
    Finish(<<Sym("ASYNC"), Id("a")>>),
    Finish(<<Id("a"), Id("a")>>),
    Finish(<<Sym("SPAWN")>>),
    Finish(<<Id("a"), Sym("PIPE")>>) }

\* tests/test_parser.py: x = 10        x = 1 + 2 * 3        data |> map(f)
Tests == {
    Finish(<<Id("x"), Sym("EQ"), NumTok(10)>>),
    Finish(<<Id("x"), Sym("EQ"), NumTok(1), Sym("PLUS"), NumTok(2), Sym("STAR"), NumTok(3)>>),
    Finish(<<Id("data"), Sym("PIPE"), Id("map"), Sym("LPAREN"), Id("f"), Sym("RPAREN")>>) }

\* token lists with empty statements: a NEWLINE where a statement begins
\* (tokenize yields the first for a source that begins with a comment line)
EmptyStatements == {
    <<Sym("NEWLINE"), Id("a"), Sym("NEWLINE"), Sym("EOF")>>,
    <<Id("a"), Sym("NEWLINE"), Sym("NEWLINE"), Sym("EOF")>>,
    <<Sym("NEWLINE"), Sym("EOF")>>,
    <<Sym("EOF")>> }

ParserInputs ==
    {Finish(s) : s \in UNION {Chains(n) : n \in 1..MaxOperands}}
        \cup {Finish(s) : s \in Operands \cup Pairs \cup Assignments}
        \cup Blocks \cup Tests \cup EmptyStatements

\* Parser.__init__
ParseInit ==
    /\ parser_tokens \in ParserInputs
    /\ parser_pos = 0
    /\ module_body = <<>>
    /\ parse_error = ""
    /\ parseState = "parsing"
    /\ first_run = NoRun
    /\ LexIdle
    /\ InterpIdle

ParseNext ==
    \/ ParseDeclaration
    \/ ParseReturn

SpecParse == ParseInit /\ [][ParseNext]_vars

(***************************************************************************)
(* Lexer and parser together, twice: tokens = Lexer(source).tokenize();    *)
(* Parser(tokens).parse(), and then the same again on the same source.     *)
(***************************************************************************)

\* a Lexer that goes on with the token list of the Lexer before it
LexerSharingTokens(src) ==
    [source |-> src, pos |-> 0, line |-> 1, column |-> 1, tokens |-> tokens,
     indent_stack |-> <<0>>]

\* Lexer.__init__: the fields of a new Lexer
Lexer(src) ==
    [source |-> src, pos |-> 0, line |-> 1, column |-> 1, tokens |-> <<>>,
     indent_stack |-> <<0>>]

\* Parser.__init__ on the tokens tokenize returned, and `body = []`
NewParser ==
    /\ lexState = "done"
    /\ parseState = "idle"
    /\ parser_tokens' = tokens
    /\ parser_pos' = 0
    /\ module_body' = <<>>
    /\ parse_error' = ""
    /\ parseState' = "parsing"
    /\ UNCHANGED <<first_run, lexVars, interpVars>>

\* the run has ended: tokenize raised, or parse returned or raised
Finished == lexState \in {"error", "value_error"} \/ parseState \in {"parsed", "error"}

\* the fields of the new Lexer become the lexer's; tokenize begins
Tokenizing(lexer) ==
    /\ source' = lexer.source
    /\ pos' = lexer.pos
    /\ line' = lexer.line
    /\ column' = lexer.column
    /\ tokens' = lexer.tokens
    /\ indent_stack' = lexer.indent_stack
    /\ lexState' = "scanning"

\* the caller keeps what the first run gave and starts over with a new Lexer
\* on the same source; the first run's Parser is dropped
SecondRun ==
    /\ Finished
    /\ first_run = NoRun
    /\ first_run' = Outcome(tokens, lexState, line, module_body, parseState, parse_error)
    /\ Tokenizing(Lexer(source))
    /\ parser_tokens' = <<>>
    /\ parser_pos' = 0
    /\ module_body' = <<>>
    /\ parse_error' = ""
    /\ parseState' = "idle"
    /\ UNCHANGED interpVars

TwiceInit == LexInit

TwiceNext ==
    \/ LexNext
    \/ NewParser
    \/ ParseNext
    \/ SecondRun

SpecTwice == TwiceInit /\ [][TwiceNext]_vars

(***************************************************************************)
(* Environment on its own: a chain of scopes, each with some of the names  *)
(* bound, and get / assign called on one of its scopes.                    *)
(***************************************************************************)

\* scopes of the longest chain
MaxScopes == 3

EnvNames == {"x", "y"}
EnvValues == {IntV(1), IntV(2)}

\* the bindings a scope may hold: any of the names, each with any value
Bindings ==
    UNION {[ns -> EnvValues] : ns \in SUBSET EnvNames}

\* Environment(parent): scope i is the child of scope i - 1
Scopes(n) ==
    {[i \in 1..n |-> [values |-> b[i], parent |-> i - 1, owner |-> 0]] :
        b \in [1..n -> Bindings]}

\* the call env.get(name)
EnvironmentGet ==
    /\ loop = "env"
    /\ \E name \in EnvNames :
          /\ ev' = Ev("get", 0, EvalFrame("sync", Name(name)), environment, None,
                      EnvGet(envs, environment, name))
          /\ envs' = envs
    /\ UNCHANGED <<program, environment, units, ready, batch, loop, current, output,
                   lexVars, parseVars>>

\* the rest of env.assign(name, value), given what the call did
Assigned(name, value, done) ==
    /\ ev' = Ev("assign", 0, EvalFrame("sync", Name(name)), environment, value, done.res)
    /\ envs' = done.es

\* the call env.assign(name, value)
EnvironmentAssign ==
    /\ loop = "env"
    /\ \E name \in EnvNames, value \in EnvValues :
          Assigned(name, value, EnvAssign(envs, environment, name, value))
    /\ UNCHANGED <<program, environment, units, ready, batch, loop, current, output,
                   lexVars, parseVars>>

EnvInit ==
    /\ program = Interpreted("", <<>>)
    /\ envs \in UNION {Scopes(n) : n \in 1..MaxScopes}
    /\ environment \in DOMAIN envs
    /\ units = <<>>
    /\ ready = <<>>
    /\ batch = 0
    /\ loop = "env"
    /\ current = 0
    /\ output = <<>>
    /\ ev = NoEv
    /\ LexIdle
    /\ ParseIdle

EnvNext ==
    \/ EnvironmentGet
    \/ EnvironmentAssign

SpecEnv == EnvInit /\ [][EnvNext]_vars

(***************************************************************************)
(* Properties                                                              *)
(***************************************************************************)

RECURSIVE CountType(_, _)
CountType(toks, type) ==
    IF toks = <<>> THEN 0
    ELSE (IF toks[1].type = type THEN 1 ELSE 0) + CountType(Tail(toks), type)

\* INDENT tokens minus DEDENT tokens
Depth(toks) == CountType(toks, "INDENT") - CountType(toks, "DEDENT")

\* C1: when tokenize returns (the source was accepted), no prefix of the
\* returned tokens has more DEDENT than INDENT tokens, the sequence ends with
\* its only EOF token, and at that token the two counts are equal.
C1_IndentDedentBalanced ==
    lexState = "done" =>
        /\ \A n \in 0..Len(tokens) : Depth(SubSeq(tokens, 1, n)) >= 0
        /\ tokens # <<>>
        /\ tokens[Len(tokens)].type = "EOF"
        /\ CountType(tokens, "EOF") = 1
        /\ Depth(tokens) = 0
        /\ indent_stack = <<0>>

\* tokenize returned for a source that indents twice and then dedents two
\* levels on one line, before another token
C1_Witness ==
    /\ lexState = "done"
    /\ CountType(tokens, "INDENT") >= 2
    /\ \E i \in 1..(Len(tokens) - 2) :
          /\ tokens[i].type = "DEDENT"
          /\ tokens[i + 1].type = "DEDENT"
          /\ tokens[i + 2].type = "IDENTIFIER"

\* ---- a reference for what an invocation returns ----
\* expressions over the parameters and literals only
RECURSIVE Closed(_, _)
Closed(expr, params) ==
    CASE expr.node = "Literal" -> TRUE
      [] expr.node = "Name" -> \E i \in 1..Len(params) : params[i] = expr.id
      [] expr.node = "BinOp" -> Closed(expr.left, params) /\ Closed(expr.right, params)
      [] OTHER -> FALSE

RECURSIVE RefEval(_, _)
RefEval(expr, bound) ==
    CASE expr.node = "Literal" -> expr.value
      [] expr.node = "Name" -> bound[expr.id]
      [] expr.node = "BinOp" ->
            ApplyOp(expr.op, RefEval(expr.left, bound), RefEval(expr.right, bound)).v

LastStatement(decl) == decl.body[Len(decl.body)]

\* the function ends with `return e`, e over its parameters and literals
HasReference(func) ==
    /\ func.t = "func"
    /\ func.declaration.body # <<>>
    /\ LastStatement(func.declaration).node = "Return"
    /\ Closed(LastStatement(func.declaration).value, func.declaration.args)

\* the value the invocation func(args) returns
Reference(func, args) ==
    Val(RefEval(LastStatement(func.declaration).value,
                BoundValues(func.declaration.args, args)))

\* the unit is executing the body of an asynchronous function
InAsyncBody(u) ==
    \E k \in 1..Len(units[u].stack) :
        units[u].stack[k].fn = "call" /\ units[u].stack[k].mode = "async"

\* C2: whenever the asynchronous evaluator completes `await h` for a task
\* handle h obtained from `spawn f(args)`, the await yields the value that
\* f returns for args.
C2_AwaitYieldsSpawnedResult ==
    (/\ ev.kind = "await"
     /\ ev.mode = "async"
     /\ IsTask(ev.val)
     /\ HasReference(units[ev.val.v].func))
        => ev.res = Reference(units[ev.val.v].func, units[ev.val.v].args)

\* C3: whenever a unit looks a name up or assigns one, the interpreter's
\* current scope was created by that unit (its call scope or a block scope
\* nested in it) or is the global scope; it is never a scope of another unit.
C3_ScopeExclusiveToUnit ==
    ev.kind \in {"get", "define"} => envs[ev.env].owner \in {0, ev.unit}

\* C4: when the asynchronous evaluator returns a task handle for `spawn f(args)`,
\* the spawned unit has executed nothing (no scope of its own, not started)
\* and only sits on the ready queue, while the spawning unit keeps the control
\* and holds the handle; a unit that has not started has executed nothing.
C4_SpawnReturnsImmediately ==
    /\ (ev.kind = "spawn" /\ ev.mode = "async" /\ ev.res.tag = "val") =>
          LET h == ev.res.v.v
          IN  /\ IsTask(ev.res.v)
              /\ h = Len(units)
              /\ ~units[h].started
              /\ units[h].status = "ready"
              /\ \E k \in 1..Len(ready) : ready[k] = h
              /\ current = ev.unit
              /\ units[current].status = "running"
              /\ units[current].ret = ev.res
    /\ \A u \in 2..Len(units) :
          ~units[u].started =>
              /\ units[u].status = "ready"
              /\ Len(units[u].stack) = 2
              /\ units[u].stack[2].fn = "call"
              /\ units[u].stack[2].pc = 0
              /\ \A e \in 1..Len(envs) : envs[e].owner # u

\* the spawning unit has run to its end with a value while the unit it
\* spawned has not executed a statement
C4_Witness ==
    /\ Len(units) >= 2
    /\ units[1].status = "done"
    /\ units[1].result.tag = "val"
    /\ ~units[2].started
    /\ units[2].status = "ready"

TopOf(u) == units[u].stack[Len(units[u].stack)]

\* every unit that has started, is not executing and has not ended stands at
\* an `await` of the asynchronous evaluator on a task handle: blocked while
\* that task is pending, on the ready queue once it has ended
SuspendedOnlyAtAwait ==
    /\ \A u \in 1..Len(units) :
          (u # current /\ units[u].started /\ units[u].status # "done") =>
              /\ TopOf(u).fn = "evaluate"
              /\ TopOf(u).node.node = "Await"
              /\ TopOf(u).mode = "async"
              /\ TopOf(u).pc = 2
              /\ IsTask(TopOf(u).vals[1])
              /\ units[u].waiting_on = TopOf(u).vals[1].v
              /\ units[u].status \in {"waiting", "ready"}
              /\ units[u].status = "waiting" => units[units[u].waiting_on].status # "done"
              /\ units[u].status = "ready" =>
                    /\ units[units[u].waiting_on].status = "done"
                    /\ \E k \in 1..Len(ready) : ready[k] = u
    /\ (current = 0 /\ ev.kind # "none") =>
          ev.kind \in {"suspend", "task_done", "reported", "interpreted"}

\* the body of the unit's function has no loop
Terminating(u) ==
    units[u].func.t = "func" =>
        \A i \in 1..Len(units[u].func.declaration.body) :
            units[u].func.declaration.body[i].node # "While"

ReadyUnit(u) ==
    u <= Len(units) /\ units[u].status = "ready" /\ Terminating(u)

CompletedUnit(u) == u <= Len(units) /\ units[u].status = "done"

AwaitOperand ==
    IF ev.mode = "async" THEN ev.val
    ELSE IF ev.node.value.node = "Name"
    THEN EnvGet(envs, ev.env, ev.node.value.id).v
    ELSE IF ev.node.value.node = "Literal" THEN ev.node.value.value
    ELSE None

\* C6: inside an async function body, an await whose operand is a task
\* handle evaluates to that task's result, wherever the await node sits.
C6_AwaitAnywhere ==
    (ev.kind = "await" /\ InAsyncBody(ev.unit) /\ IsTask(AwaitOperand)) =>
        /\ units[AwaitOperand.v].status = "done"
        /\ ev.res = units[AwaitOperand.v].result

\* the callee of the spawn that was just evaluated
SpawnCallee ==
    IF ev.mode = "async" THEN ev.val
    ELSE IF ev.node.call.node = "Call" /\ ev.node.call.func.node = "Name"
    THEN EnvGet(envs, ev.env, ev.node.call.func.id).v
    ELSE None

\* C7: a spawn whose callee is not an asynchronous closure ends in a runtime
\* error and makes no task, whichever evaluator evaluates it.
C7_SpawnNonAsyncRaises ==
    (ev.kind = "spawn" /\ ~IsAsyncFunction(SpawnCallee)) =>
        /\ ev.res.tag = "error"
        /\ ev.res.msg = "Spawn requires a call to an async function"

\* C8: an await whose operand is a plain value evaluates to that value,
\* whichever evaluator evaluates it.
C8_AwaitPlainPassThrough ==
    (ev.kind = "await" /\ ~IsTask(AwaitOperand) /\ ~IsCoroutine(AwaitOperand)
     /\ (ev.mode = "sync" => ev.node.value.node \in {"Name", "Literal"})) =>
        ev.res = Val(AwaitOperand)

\* the activation `depth` below the innermost one of unit u
Below(u, depth) == units[u].stack[Len(units[u].stack) - depth]

\* the synchronous execute running an if or a while
IfOrWhile(f) ==
    f.fn = "execute" /\ f.mode = "sync" /\ f.node.node \in {"If", "While"}

AssignedNames(statements) ==
    {statements[i].target :
        i \in {j \in 1..Len(statements) : statements[j].node = "Assign"}}

\* C9: a block run by the synchronous execute for an if/else branch or a
\* while iteration starts in a new, empty scope whose parent is the scope
\* that was current; every name a loop body assigns is bound on entry of each
\* iteration as it was when the loop began; when the block ends, every scope
\* that existed before it (the enclosing one and its ancestors among them)
\* is exactly as it was, and the enclosing scope is current again.
C9_BlockScopeFresh ==
    /\ (ev.kind = "block_enter" /\ IfOrWhile(Below(ev.unit, 2))) =>
          LET f == ev.frame
              by == Below(ev.unit, 2)
          IN  /\ f.env = Len(f.snap)
              /\ DOMAIN envs[f.env].values = {}
              /\ envs[f.env].parent = f.prev
              /\ environment = f.env
              /\ \A e \in 1..Len(f.snap) : envs[e] = f.snap[e]
              /\ by.node.node = "While" =>
                    \A n \in AssignedNames(f.node.body) :
                        EnvGet(envs, f.env, n) = EnvGet(by.snap, by.prev, n)
    /\ (ev.kind = "block_exit" /\ IfOrWhile(Below(ev.unit, 0))) =>
          LET f == ev.frame
          IN  /\ \A e \in 1..Len(f.snap) : e # f.env => envs[e] = f.snap[e]
              /\ environment = f.prev
    /\ (ev.kind = "define" /\ ev.mode = "sync" /\ ev.node.node = "Assign") =>
          /\ ev.node.target \in DOMAIN envs[ev.env].values
          /\ envs[ev.env].values[ev.node.target] = ev.val
          /\ ev.env = environment

\* the second iteration of a while body has ended, and it assigned a name
\* that the first iteration had assigned in its own scope
C9_Witness ==
    /\ ev.kind = "block_exit"
    /\ IfOrWhile(Below(ev.unit, 0))
    /\ Below(ev.unit, 0).node.node = "While"
    /\ \E e \in 1..(ev.frame.env - 1) :
          /\ envs[e].parent = envs[ev.frame.env].parent
          /\ \E n \in DOMAIN envs[e].values : n \in DOMAIN envs[ev.frame.env].values

\* the innermost call activation of unit u
InnermostCall(u) ==
    LET st == units[u].stack
        k == CHOOSE i \in 1..Len(st) :
                 st[i].fn = "call" /\ \A j \in (i + 1)..Len(st) : st[j].fn # "call"
    IN  st[k]

InCall(u) == \E i \in 1..Len(units[u].stack) : units[u].stack[i].fn = "call"

\* position of scope e in a chain, 0 if absent
IndexIn(chain, e) ==
    IF \E i \in 1..Len(chain) : chain[i] = e
    THEN CHOOSE i \in 1..Len(chain) : chain[i] = e
    ELSE 0

\* C10: Function.call runs the body in a scope that did not exist before,
\* whose parent is the function's closure and which binds the parameters to
\* the arguments by position; inside the body a name resolves through block
\* scopes of this call, the call's scope and then the closure's chain; when
\* the call returns, every scope that existed before it is unchanged and the
\* caller's scope is current again.
C10_CallScope ==
    /\ (ev.kind = "call_enter" /\ ev.mode = "sync") =>
          LET f == ev.frame
              func == ev.val
              params == func.declaration.args
              args == Tail(f.vals)
          IN  /\ f.env = Len(f.snap) + 1
              /\ f.env = Len(envs)
              /\ envs[f.env].parent = func.closure
              /\ DOMAIN envs[f.env].values = {params[i] : i \in 1..Len(args)}
              /\ \A i \in 1..Len(args) :
                    (\A j \in (i + 1)..Len(args) : params[j] # params[i]) =>
                        envs[f.env].values[params[i]] = args[i]
              /\ \A e \in 1..Len(f.snap) : envs[e] = f.snap[e]
    /\ (ev.kind = "call_exit" /\ ev.mode = "sync") =>
          /\ \A e \in 1..Len(ev.frame.snap) : envs[e] = ev.frame.snap[e]
          /\ environment = ev.frame.prev
    /\ (ev.kind = "get" /\ InCall(ev.unit) /\ InnermostCall(ev.unit).mode = "sync") =>
          LET c == InnermostCall(ev.unit)
              chain == Chain(envs, ev.env)
              at == IndexIn(chain, c.env)
          IN  /\ at > 0
              /\ \A i \in 1..(at - 1) : chain[i] > c.env
              /\ SubSeq(chain, at + 1, Len(chain)) = Chain(envs, c.vals[1].closure)
              /\ ev.res = EnvGet(envs, ev.env, ev.node.id)

\* g, defined at top level, was called from the body of h(y) and returned
\* the top-level y, not the caller's
C10_Witness ==
    /\ ev.kind = "call_exit"
    /\ ev.mode = "sync"
    /\ ev.val.declaration.name = "g"
    /\ ev.res = Val(IntV(1))
    /\ "y" \in DOMAIN envs[ev.frame.prev].values
    /\ envs[ev.frame.prev].values["y"] # IntV(1)

\* C11: a `return e` ends the invocation it is executed in, and only that
\* one: the statement raises the return signal with the value of e; the
\* signal passes every enclosing statement and block of the body without
\* another statement being started; the nearest enclosing call takes it and
\* hands its value, as an ordinary value, to the caller's pending call
\* expression, and the caller's activations are as they were.
C11_ReturnEndsInvocation ==
    [][ /\ (At("execute", "Return") /\ Top.pc = 1 /\ Resumed) =>
              /\ units'[current].stack = Pop(Me.stack)
              /\ units'[current].ret = Returning(Me.ret.v)
        /\ (current # 0 /\ Me.stack # <<>> /\ Me.ret.tag = "return"
            /\ Top.fn \in {"call", "execute", "execute_block", "evaluate"}) =>
              /\ current' = current
              /\ units'[current].stack = Pop(Me.stack)
              /\ units'[current].ret =
                    IF Top.fn = "call" THEN Val(Me.ret.v) ELSE Me.ret
      ]_vars

\* outer(1) returned 12: the return inside the while inside the if of
\* inner ended inner with 11, and outer went on to add 1
C11_Witness ==
    /\ program.name = "return_nested"
    /\ ev.kind = "call_exit"
    /\ ev.val.declaration.name = "outer"
    /\ ev.res = Val(IntV(12))

\* C12: a `return` executed at module top level during interpret ends the
\* run like any failure: interpret catches it, prints it as a runtime error
\* carrying the returned value, and returns normally; the scopes are left as
\* they are and no later statement is started.
C12_TopLevelReturnReported ==
    [][ (current # 0 /\ Top.fn = "interpret" /\ Me.ret.tag = "return") =>
          /\ ev'.kind = "reported"
          /\ current' = 0
          /\ units'[1].status = "done"
          /\ units'[1].stack = <<>>
          /\ output' = Append(output, Report(Me.ret))
          /\ envs' = envs
      ]_vars

\* C12 as stated: no runtime error is reported for a top-level return.
C12_AsStated ==
    ev.kind = "reported" => ev.res.tag # "return"

\* `x = 1; return x; y = 2` has ended: the return of 1 was reported, y is unbound
C12_Witness ==
    /\ program.name = "top_return"
    /\ ev.kind = "reported"
    /\ ev.res = Returning(IntV(1))
    /\ output = <<Report(Returning(IntV(1)))>>
    /\ "y" \notin DOMAIN envs[1].values

\* C13: the body of a user closure is entered only with as many arguments as
\* the closure has parameters.
C13_ArityMismatchRaises ==
    ev.kind = "call_enter" =>
        Len(Tail(ev.frame.vals)) = Len(ev.val.declaration.args)

\* the call expression a pipe stands for: f(a, xs) for a |> f(xs), f(a) for a |> f
Desugared(pipe) ==
    IF pipe.right.node = "Call"
    THEN Call(pipe.right.func, <<pipe.left>> \o pipe.right.args)
    ELSE Call(pipe.right, <<pipe.left>>)

\* the statement before the one the enclosing block of unit u is at
PreviousStatement(u) == TopOf(u).node.body[TopOf(u).pc - 1]

\* C14: when an assignment of a call f(a, xs) directly follows, in the same
\* block, an assignment of the pipe a |> f(xs) (or of a |> f, for f(a)), both
\* names are bound to the same value.
C14_PipeEqualsDesugaredCall ==
    (/\ ev.kind = "define"
     /\ ev.node.node = "Assign"
     /\ ev.node.value.node = "Call"
     /\ TopOf(ev.unit).pc > 1
     /\ PreviousStatement(ev.unit).node = "Assign"
     /\ PreviousStatement(ev.unit).value.node = "Pipeline"
     /\ Desugared(PreviousStatement(ev.unit).value) = ev.node.value) =>
        /\ PreviousStatement(ev.unit).target \in DOMAIN envs[ev.env].values
        /\ envs[ev.env].values[PreviousStatement(ev.unit).target] = ev.val

\* the names the first n statements of a module bind in the global scope
TopLevelNames(body, n) ==
    {body[i].target : i \in {j \in 1..n : body[j].node = "Assign"}}
        \cup {body[i].name : i \in {j \in 1..n : body[j].node = "FunctionDef"}}

\* C15: when interpret ends on a failure of statement k, the interpreter has
\* stopped (nothing is left to execute and no exception is pending outside
\* it), the failure is the last thing printed, and the global scope binds
\* what it bound before the run plus exactly the names bound by statements
\* 1..k-1, earlier bindings untouched unless rebound by them; when interpret
\* ends without a failure every statement has run, in order, and the global
\* scope binds the names of all of them.
C15_InterpretAbortsAtFailure ==
    /\ ev.kind = "reported" =>
          LET f == ev.frame
              before == f.snap[1].values
              names == TopLevelNames(f.node.body, f.pc - 1)
          IN  /\ current = 0
              /\ units[1].status = "done"
              /\ units[1].stack = <<>>
              /\ units[1].result = ev.res
              /\ ev.res.tag # "val"
              /\ output # <<>>
              /\ output[Len(output)] = Report(ev.res)
              /\ DOMAIN envs[1].values = DOMAIN before \cup names
              /\ \A n \in DOMAIN before \ names : envs[1].values[n] = before[n]
    /\ ev.kind = "interpreted" =>
          LET f == ev.frame
          IN  /\ f.pc = Len(f.node.body)
              /\ units[1].status = "done"
              /\ DOMAIN envs[1].values =
                    DOMAIN f.snap[1].values \cup TopLevelNames(f.node.body, f.pc)
    /\ (current # 0 /\ Me.stack # <<>> /\ Me.stack[1].fn = "interpret") =>
          DOMAIN envs[1].values \subseteq
              DOMAIN Me.stack[1].snap[1].values
                  \cup TopLevelNames(Me.stack[1].node.body, Me.stack[1].pc)

\* the third statement of the module failed: x and g are bound, y and z are not
C15_Witness ==
    /\ program.name = "fail_at"
    /\ ev.kind = "reported"
    /\ ev.frame.pc = 3
    /\ ev.res.tag = "error"
    /\ {"x", "g"} \subseteq DOMAIN envs[1].values
    /\ {"w", "y", "z"} \cap DOMAIN envs[1].values = {}

\* the unit is at module top level: in no call and in no block
AtTopLevel(u) ==
    /\ units[u].stack # <<>>
    /\ units[u].stack[1].fn = "interpret"
    /\ \A i \in 1..Len(units[u].stack) :
          units[u].stack[i].fn \notin {"call", "execute_block"}

\* C16: whenever interpret has returned, after a failure or not, the global
\* scope is the current scope and still binds every name it bound before the
\* run; so the next interpret on the same interpreter begins in the global
\* scope, and its top-level statements look names up and define names there.
C16_GlobalScopeRestored ==
    /\ ev.kind \in {"reported", "interpreted"} =>
          /\ environment = 1
          /\ DOMAIN ev.frame.snap[1].values \subseteq DOMAIN envs[1].values
    /\ ev.kind = "repl" =>
          /\ environment = 1
          /\ ev.frame.snap = envs
    /\ (ev.kind \in {"get", "define"} /\ ev.mode = "sync" /\ AtTopLevel(ev.unit)) =>
          ev.env = 1

\* the first input failed three scopes deep (in the if-block of f, called at
\* top level); the second input has run to its end and bound s = f(2) + k
C16_Witness ==
    /\ program.name = "repl"
    /\ program.rest = <<>>
    /\ ev.kind = "interpreted"
    /\ Len(output) = 1
    /\ "r" \notin DOMAIN envs[1].values
    /\ "s" \in DOMAIN envs[1].values
    /\ envs[1].values["s"] = IntV(3)

(***************************************************************************)
(* The parser, on the token lists of SpecParse.                            *)
(***************************************************************************)

\* the tokens of the one statement: all but the closing NEWLINE and EOF
Statement == SubSeq(parser_tokens, 1, Len(parser_tokens) - 2)

\* the tokens of the expression: the statement, or what follows `name =`
ExpressionTokens ==
    IF Len(Statement) > 2 /\ Statement[1].type = "IDENTIFIER" /\ Statement[2].type = "EQ"
    THEN SubSeq(Statement, 3, Len(Statement))
    ELSE Statement

\* the tree the parser built for ExpressionTokens
ExpressionTree ==
    IF module_body[1].node = "Assign" THEN module_body[1].value ELSE module_body[1]

ArithmeticOperators == {"PLUS", "MINUS", "STAR", "SLASH"}

\* operands and the operators + - * / in turn, as in `a - 1 * a`
Arithmetic(toks) ==
    /\ Len(toks) % 2 = 1
    /\ \A i \in 1..Len(toks) :
          IF i % 2 = 1 THEN toks[i].type \in {"IDENTIFIER", "NUMBER"}
          ELSE toks[i].type \in ArithmeticOperators

\* what is written: the operand nodes and the operators, left to right
Written(toks) ==
    [i \in 1..Len(toks) |->
        IF toks[i].type = "IDENTIFIER" THEN Name(toks[i].value)
        ELSE IF toks[i].type = "NUMBER" THEN Literal(IntV(toks[i].value))
        ELSE [op |-> OpName(toks[i].type)]]

\* the operands and operators of a tree of BinOp nodes, left to right
RECURSIVE InOrder(_)
InOrder(n) ==
    IF n.node = "BinOp" THEN InOrder(n.left) \o <<[op |-> n.op]>> \o InOrder(n.right)
    ELSE <<n>>

\* 2 for * and /, 1 for + and -
Level(op) == IF op \in {OpName("STAR"), OpName("SLASH")} THEN 2 ELSE 1

\* every BinOp has on its right only operators that bind tighter than its own,
\* and on its left none that binds looser
RECURSIVE Grouped(_)
Grouped(n) ==
    n.node = "BinOp" =>
        /\ n.left.node = "BinOp" => Level(n.left.op) >= Level(n.op)
        /\ n.right.node = "BinOp" => Level(n.right.op) > Level(n.op)
        /\ Grouped(n.left)
        /\ Grouped(n.right)

\* C17: an expression of operands and the operators + - * / always parses, to
\* the one tree over these operands and operators, in their order, in which
\* * and / group tighter than + and - and operators of one level group to the
\* left.
C17_PrecedenceAndAssociativity ==
    (Arithmetic(ExpressionTokens) /\ parseState # "parsing") =>
        /\ parseState = "parsed"
        /\ Len(module_body) = 1
        /\ InOrder(ExpressionTree) = Written(ExpressionTokens)
        /\ Grouped(ExpressionTree)

\* x = 1 + 2 * 3 has been parsed: the product is the right operand of the sum
C17_Witness ==
    /\ parseState = "parsed"
    /\ Arithmetic(ExpressionTokens)
    /\ Len(ExpressionTokens) = 5
    /\ module_body = <<Assign("x", BinOp(Literal(IntV(1)), OpName("PLUS"),
                                         BinOp(Literal(IntV(2)), OpName("STAR"),
                                               Literal(IntV(3)))))>>

\* the nodes a node holds
Children(n) ==
    CASE n.node \in {"BinOp", "Pipeline"} -> <<n.left, n.right>>
      [] n.node = "Call" -> <<n.func>> \o n.args
      [] n.node = "Spawn" -> <<n.call>>
      [] n.node \in {"Await", "Return", "Assign"} -> <<n.value>>
      [] n.node = "Lambda" -> <<n.body>>
      [] n.node = "List" -> n.elements
      [] n.node = "FunctionDef" -> n.body
      [] n.node = "If" -> <<n.test>> \o n.body \o n.orelse
      [] n.node = "While" -> <<n.test>> \o n.body
      [] OTHER -> <<>>

\* every node of the trees, each before the nodes it holds
RECURSIVE Nodes(_)
Nodes(trees) ==
    IF trees = <<>> THEN <<>>
    ELSE <<Head(trees)>> \o Nodes(Children(Head(trees))) \o Nodes(Tail(trees))

\* how many nodes of the module's body are of this kind
NodeCount(kind) ==
    Cardinality({i \in DOMAIN Nodes(module_body) : Nodes(module_body)[i].node = kind})

\* how many tokens are of this type
TokenCount(type) ==
    Cardinality({i \in DOMAIN parser_tokens : parser_tokens[i].type = type})

\* the token type occurs in the statement
Has(type) == \E i \in DOMAIN Statement : Statement[i].type = type

\* the stages of a chain: the tokens between the pipes
RECURSIVE Stages(_)
Stages(toks) ==
    IF \E i \in DOMAIN toks : toks[i].type = "PIPE"
    THEN LET i == CHOOSE i \in DOMAIN toks :
                      /\ toks[i].type = "PIPE"
                      /\ \A j \in 1..(i - 1) : toks[j].type # "PIPE"
         IN  <<SubSeq(toks, 1, i - 1)>> \o Stages(SubSeq(toks, i + 1, Len(toks)))
    ELSE <<toks>>

\* the tree of a stage parsed on its own
Alone(stage) == expression(Finish(stage), 0).node

\* the first n stages piped from left to right
RECURSIVE Chained(_, _)
Chained(stages, n) ==
    IF n = 1 THEN Alone(stages[1])
    ELSE Pipeline(Chained(stages, n - 1), Alone(stages[n]))

\* C18: the parser builds one Pipeline node per pipe and rewrites none: the
\* tree of s1 |> s2 |> ... |> sn (no stage a lambda) is Pipeline(...
\* Pipeline(t1, t2) ..., tn), ti the tree of si parsed on its own, so that a
\* call on the right stays the Call it is, a sum on the left is piped whole,
\* and chains group to the left.
C18_PipeNotRewritten ==
    parseState = "parsed" =>
        /\ NodeCount("Pipeline") = TokenCount("PIPE")
        /\ (Has("PIPE") /\ ~Has("LAMBDA")) =>
              /\ Len(module_body) = 1
              /\ ExpressionTree = Chained(Stages(ExpressionTokens),
                                          Len(Stages(ExpressionTokens)))

\* data |> map(f) has been parsed: the right of the Pipeline is the call map(f)
C18_Witness ==
    /\ parseState = "parsed"
    /\ Has("PIPE")
    /\ module_body = <<Pipeline(Name("data"), Call(Name("map"), <<Name("f")>>))>>

\* C19: a Spawn node is only ever built around a Call node: when the parse
\* has succeeded, the operand of every Spawn in the tree is a Call (so that
\* `spawn` before a name, a literal, a parenthesized expression or a list
\* must have failed).
C19_SpawnOnlyAroundCall ==
    parseState = "parsed" =>
        \A i \in DOMAIN Nodes(module_body) :
            Nodes(module_body)[i].node = "Spawn" =>
                Nodes(module_body)[i].call.node = "Call"

\* the input is one statement that begins with an expression
ExpressionStatement ==
    /\ parser_tokens[1].type \notin {"RETURN", "IF", "WHILE", "NEWLINE", "DEF", "ASYNC"}
    /\ ~Has("INDENT")

\* what the parse has come to when lhs, the expression the statement begins
\* with, is followed by `=`
AssignmentOnlyToName(lhs) ==
    (lhs.ok /\ check(parser_tokens, lhs.pos, "EQ")) =>
        IF lhs.node.node = "Name"
        THEN /\ parse_error # "Invalid assignment target"
             /\ parseState = "parsed" =>
                   /\ Len(module_body) = 1
                   /\ module_body[1].node = "Assign"
                   /\ module_body[1].target = lhs.node.id
        ELSE /\ parseState = "error"
             /\ parse_error = "Invalid assignment target"
             /\ module_body = <<>>

\* C20: an expression followed by `=` becomes an Assign to the name only when
\* the expression parsed to a Name; after any other expression (call, literal,
\* binary operation, pipe, list, lambda, spawn, await) the parse ends with the
\* error "Invalid assignment target" and no statement built. A successful
\* parse holds one Assign per `=`.
C20_AssignOnlyToName ==
    /\ (parseState # "parsing" /\ ExpressionStatement) =>
          AssignmentOnlyToName(expression(parser_tokens, 0))
    /\ parseState = "parsed" => NodeCount("Assign") = TokenCount("EQ")

\* f() = 1 has been refused
C20_Witness ==
    /\ Statement = <<Id("f"), Sym("LPAREN"), Sym("RPAREN"), Sym("EQ"), NumTok(1)>>
    /\ parseState = "error"
    /\ parse_error = "Invalid assignment target"
    /\ module_body = <<>>

(***************************************************************************)
(* The lexer, on the sources of SpecLex.                                   *)
(***************************************************************************)

\* the step is handle_newline before a logical line: the character read is
\* the newline, and the line it leads to holds something to tokenize
BeforeLogicalLine ==
    /\ lexState = "scanning"
    /\ pos < Len(source)
    /\ PeekAt(source, pos) = "\n"
    /\ PeekAt(source, pos') \notin {"\n", "#", ""}

\* the levels of the stack above a level
Above(level) == {i \in DOMAIN indent_stack : indent_stack[i] > level}

\* C21: before a logical line indented less than the top of the stack, the
\* lexer pops the levels above the line's level, emitting after the NEWLINE
\* one DEDENT per popped level and nothing else; tokenization fails there if
\* and only if the top then differs from the line's level, and after the
\* failure nothing more happens: no token sequence is returned.
C21_MismatchedDedentFails ==
    [][/\ (BeforeLogicalLine /\ column' - 1 < indent_stack[Len(indent_stack)]) =>
             /\ Len(tokens') = Len(tokens) + 1 + Cardinality(Above(column' - 1))
             /\ SubSeq(tokens', 1, Len(tokens)) = tokens
             /\ tokens'[Len(tokens) + 1].type = "NEWLINE"
             /\ \A i \in (Len(tokens) + 2)..Len(tokens') : tokens'[i].type = "DEDENT"
             /\ indent_stack' = SubSeq(indent_stack, 1, Len(indent_stack)
                                           - Cardinality(Above(column' - 1)))
             /\ lexState' = IF indent_stack'[Len(indent_stack')] # column' - 1
                            THEN "error" ELSE "scanning"
       /\ lexState = "error" => lexState' = "error" /\ tokens' = tokens]_vars

\* the fourth line, indented by one, closed the levels 4 and 2 and matches none
C21_Witness ==
    /\ lexState = "error"
    /\ indent_stack = <<0>>
    /\ column = 2
    /\ Len(tokens) > 2
    /\ tokens[Len(tokens)].type = "DEDENT"
    /\ tokens[Len(tokens) - 1].type = "DEDENT"

\* the types of the tokens
Types(toks) == [i \in DOMAIN toks |-> toks[i].type]

\* C22: when tokenize returns, the sequence ends with its only EOF token; if
\* the source gave any token, the returned sequence is these tokens, then
\* NEWLINE, then one DEDENT per indentation level open at the end of the
\* input, then EOF, whether the source ends with a newline character or not;
\* the source without tokens gives EOF alone.
C22_TailNewlineDedentsEof ==
    [][(lexState = "scanning" /\ lexState' = "done") =>
          /\ tokens'[Len(tokens')].type = "EOF"
          /\ CountType(tokens', "EOF") = 1
          /\ IF tokens = <<>> THEN Len(tokens') = 1
             ELSE /\ Len(tokens') = Len(tokens) + Len(indent_stack) + 1
                  /\ SubSeq(tokens', 1, Len(tokens)) = tokens
                  /\ tokens'[Len(tokens) + 1].type = "NEWLINE"
                  /\ \A i \in (Len(tokens) + 2)..(Len(tokens') - 1) :
                        tokens'[i].type = "DEDENT"]_vars

\* x = 10 + 20 has been tokenized
C22_Witness ==
    /\ lexState = "done"
    /\ Types(tokens) = <<"IDENTIFIER", "EQ", "NUMBER", "PLUS", "NUMBER", "NEWLINE", "EOF">>
    /\ tokens[1].value = "x"
    /\ tokens[3].value = 10
    /\ tokens[5].value = 20

\* the tokens the lexer adds for the layout, not read from a line
Layout == {"NEWLINE", "INDENT", "DEDENT", "EOF"}

\* C23: in the returned sequence every NEWLINE follows a token read from a
\* line (the line it terminates) and carries that line's number, and every
\* line a token was read from is terminated by a NEWLINE.
C23_NewlinePerLogicalLine ==
    lexState = "done" =>
        /\ \A i \in DOMAIN tokens :
              tokens[i].type = "NEWLINE" =>
                  /\ i > 1
                  /\ tokens[i - 1].type \notin Layout
                  /\ tokens[i].line = tokens[i - 1].line
        /\ \A i \in DOMAIN tokens :
              (tokens[i].type \notin Layout /\ tokens[i + 1].line # tokens[i].line) =>
                  tokens[i + 1].type = "NEWLINE"

\* from its n-th character on, the text holds only blanks, newlines and
\* comments (in_comment: the n-th character is inside a comment)
RECURSIVE OnlyBlanksAndComments(_, _, _)
OnlyBlanksAndComments(src, n, in_comment) ==
    IF n > Len(src) THEN TRUE
    ELSE IF src[n] = "\n" THEN OnlyBlanksAndComments(src, n + 1, FALSE)
    ELSE IF src[n] = "#" THEN OnlyBlanksAndComments(src, n + 1, TRUE)
    ELSE (in_comment \/ IsSpace(src[n])) /\ OnlyBlanksAndComments(src, n + 1, in_comment)

\* C24: while a source of blank lines, whitespace and comments only is
\* tokenized, the indentation stack stays [0] and no token is emitted; it is
\* accepted, and the sequence returned is [EOF] or [NEWLINE, EOF]; for the
\* empty source it is [EOF].
C24_BlankSourceGivesEof ==
    OnlyBlanksAndComments(source, 1, FALSE) =>
        /\ indent_stack = <<0>>
        /\ lexState # "error"
        /\ lexState = "scanning" => tokens = <<>>
        /\ lexState = "done" =>
              /\ Types(tokens) \in {<<"EOF">>, <<"NEWLINE", "EOF">>}
              /\ source = <<>> => Types(tokens) = <<"EOF">>

\* a source of several lines with an indented comment has been tokenized
C24_Witness ==
    /\ lexState = "done"
    /\ OnlyBlanksAndComments(source, 1, FALSE)
    /\ \E i \in 2..Len(source) : source[i] = "#" /\ source[i - 1] = " "
    /\ \E i \in DOMAIN source : source[i] = "\n"
    /\ Types(tokens) = <<"EOF">>

(***************************************************************************)
(* Task handles, scopes and calls, on the programs of Spec.                *)
(***************************************************************************)

\* the step is `await val` on a task that has ended
AwaitsEnded ==
    /\ At("evaluate", "Await")
    /\ Top.mode = "async"
    /\ Top.pc = 1
    /\ Resumed
    /\ IsTask(Me.ret.v)
    /\ units[Me.ret.v.v].status = "done"

\* C25: a task that has ended stays ended with the result it has (its body
\* is not run again); awaiting its handle, a first or a second time, does not
\* suspend and yields that result; and the program that awaits one handle
\* twice ends, returning the task's value twice, the body having printed once.
C25_SecondAwaitSameResult ==
    /\ [][/\ \A h \in DOMAIN units :
                units[h].status = "done" =>
                    \/ units'[h] = units[h]
                    \/ program' # program
          /\ AwaitsEnded =>
                /\ ev'.kind = "await"
                /\ ev'.res = units[Me.ret.v.v].result
                /\ units'[current].status = "running"
          /\ (program.name = "await_twice" /\ units'[1].status = "done") =>
                /\ units'[1].result = Val(ListV(<<program.body[2].body[1].value.call.args[1].value,
                                                  program.body[2].body[1].value.call.args[1].value>>))
                /\ output' = <<<<program.body[2].body[1].value.call.args[1].value>>>>]_vars
    /\ (program.name = "await_twice") ~> (units[1].status = "done")

\* the second await of the handle has yielded the value the first one yielded
C25_Witness ==
    /\ program.name = "await_twice"
    /\ ev.kind = "await"
    /\ IsTask(ev.val)
    /\ ev.res.tag = "val"
    /\ "x" \in DOMAIN envs[environment].values
    /\ envs[environment].values["x"] = ev.res.v

\* the executing unit ends in this step, with an exception
EndsFailed ==
    /\ current # 0
    /\ Top.fn = "task"
    /\ Me.ret.tag = "error"

\* C26: spawning an async function yields a task handle whose body has not
\* run, whatever the body will do; when a unit ends with an exception nothing
\* of any other unit changes but the waking of its waiters; an await of a
\* failed task raises the task's exception in the awaiting unit.  The program
\* that spawns a failing body, prints and awaits ends with the body's
\* exception after the print; without the await it returns normally.
C26_SpawnedErrorRaisedAtAwait ==
    [][/\ (ev'.kind = "spawn" /\ IsAsyncFunction(ev'.val)) =>
            /\ ev'.res.tag = "val"
            /\ IsTask(ev'.res.v)
            /\ units'[current].ret = ev'.res
            /\ units'[ev'.res.v.v].status = "ready"
            /\ ~units'[ev'.res.v.v].started
       /\ EndsFailed =>
            \A u \in DOMAIN units :
                u # current =>
                    /\ units'[u].stack = units[u].stack
                    /\ units'[u].ret = units[u].ret
                    /\ units'[u].status # units[u].status => \E i \in DOMAIN Me.waiters : Me.waiters[i] = u
       /\ (ev'.kind = "await" /\ IsTask(ev'.val) /\ units[ev'.val.v].result.tag = "error") =>
            /\ ev'.res = units[ev'.val.v].result
            /\ units'[ev'.unit].ret = ev'.res
       /\ (program.name = "spawn_fails" /\ units'[1].status = "done") =>
            /\ units'[1].result = Err("Undefined variable")
            /\ units'[2].result = Err("Undefined variable")
            /\ output' = <<<<program.body[2].body[2].args[1].value>>>>
       /\ (program.name = "spawn_fails_unawaited" /\ units'[1].status = "done") =>
            /\ units'[1].result = Val(IntV(3))
            /\ output' = <<<<program.body[2].body[2].args[1].value>>>>]_vars

\* the spawner printed after its spawn and is handed the spawned body's
\* exception by its await
C26_Witness ==
    /\ program.name = "spawn_fails"
    /\ ev.kind = "await"
    /\ ev.unit = 1
    /\ ev.res = Err("Undefined variable")
    /\ Len(output) = 1
    /\ units[2].status = "done"

\* the places in the chain of scope e where the name is bound
Defining(es, e, name) ==
    {i \in DOMAIN Chain(es, e) : HasName(es[Chain(es, e)[i]], name)}

\* the nearest scope of the chain of e that binds the name
Nearest(es, e, name) ==
    Chain(es, e)[CHOOSE i \in Defining(es, e, name) :
                    \A j \in Defining(es, e, name) : i <= j]

\* C27: env.get(name) returns the value the nearest scope of the chain that
\* binds the name holds for it, raises Undefined variable exactly when no
\* scope of the chain binds it, and leaves every scope as it was.
C27_GetNearestBinding ==
    [][ev'.kind = "get" =>
        /\ envs' = envs
        /\ IF Defining(envs, ev'.env, ev'.node.id) = {}
           THEN ev'.res = Err("Undefined variable")
           ELSE ev'.res = Val(envs[Nearest(envs, ev'.env, ev'.node.id)].values[ev'.node.id])]_vars

\* a lookup found the name in the enclosing scope while the scope beyond
\* that one holds another value for it
C27_Witness ==
    /\ loop = "env"
    /\ ev.kind = "get"
    /\ ev.env = 3
    /\ ~HasName(envs[3], ev.node.id)
    /\ HasName(envs[2], ev.node.id)
    /\ HasName(envs[1], ev.node.id)
    /\ envs[1].values[ev.node.id] # envs[2].values[ev.node.id]
    /\ ev.res = Val(envs[2].values[ev.node.id])

\* C30: env.assign(name, value) rebinds the name in the nearest scope of the
\* chain that binds it and changes nothing else; when no scope of the chain
\* binds it, it raises Undefined variable and changes nothing.  No scope gains
\* a name.
C30_AssignNearestBinding ==
    [][ev'.kind = "assign" =>
        /\ \A s \in DOMAIN envs : DOMAIN envs'[s].values = DOMAIN envs[s].values
        /\ DOMAIN envs' = DOMAIN envs
        /\ IF Defining(envs, ev'.env, ev'.node.id) = {}
           THEN /\ ev'.res = Err("Undefined variable")
                /\ envs' = envs
           ELSE /\ ev'.res = Val(None)
                /\ envs' = [envs EXCEPT
                              ![Nearest(envs, ev'.env, ev'.node.id)].values[ev'.node.id] = ev'.val]]_vars

\* an assign went past its own scope and rebound the name in the enclosing
\* one, while the scope beyond keeps the other value it has for the name
C30_Witness ==
    /\ loop = "env"
    /\ ev.kind = "assign"
    /\ ev.env = 3
    /\ ev.res = Val(None)
    /\ ~HasName(envs[3], ev.node.id)
    /\ HasName(envs[2], ev.node.id)
    /\ envs[2].values[ev.node.id] = ev.val
    /\ HasName(envs[1], ev.node.id)
    /\ envs[1].values[ev.node.id] # ev.val

\* the callee and every argument of the call have been evaluated
CallEvaluated ==
    /\ At("evaluate", "Call")
    /\ Top.pc = Len(Top.node.args) + 1
    /\ Resumed

\* the unit's innermost activation is a fresh evaluation of the node
Restarted(stack, node) ==
    /\ stack # <<>>
    /\ stack[Len(stack)].fn = "evaluate"
    /\ stack[Len(stack)].node = node
    /\ stack[Len(stack)].pc = 0

\* C28: once the callee and the arguments of a call have been evaluated the
\* call dispatches, it does not evaluate them again: x(print(1), print(2))
\* with x a number prints 1 and 2 once each before it fails, on both paths.
C28_CalleeAndArgumentsOnce ==
    [][/\ CallEvaluated => ~Restarted(units'[current].stack, Top.node)
       /\ program.name \in {"call_number", "call_number_sync"} => Len(output') <= 2]_vars

(***************************************************************************)
(* Two runs on one source, on the sources of SpecTwice.                    *)
(***************************************************************************)

C31_StackMatchesTokens ==
    /\ indent_stack # <<>>
    /\ indent_stack[1] = 0
    /\ \A i \in 1..(Len(indent_stack) - 1) : indent_stack[i] < indent_stack[i + 1]
    /\ Len(indent_stack) - 1 = CountType(tokens, "INDENT") - CountType(tokens, "DEDENT")

\* two levels were opened and the inner one closed again by a dedent to the
\* outer one, which is still open
C31_Witness ==
    /\ lexState = "scanning"
    /\ Len(indent_stack) = 2
    /\ CountType(tokens, "INDENT") = 2
    /\ CountType(tokens, "DEDENT") = 1

\* C32: a turn of tokenize's loop never moves the read position back or
\* beyond the end of the source, moves it forward unless it raises a lexer
\* error, and leaves tokenize in its loop, returned, or ended by a lexer
\* error: tokenize ends with a token sequence or a lexical error.
C32_TokenizeAdvancesOrFails ==
    [][lexState = "scanning" =>
        /\ pos' >= pos
        /\ pos' <= Len(source)
        /\ pos < Len(source) => (pos' > pos \/ lexState' = "error")
        /\ lexState' \in {"scanning", "done", "error"}]_vars

(***************************************************************************)
(* The parser's cursor, on the token lists of SpecParse.                   *)
(***************************************************************************)

\* the index of the EOF token
RECURSIVE EofIndex(_, _)
EofIndex(toks, p) == IF is_at_end(toks, p) THEN p ELSE EofIndex(toks, p + 1)

\* a turn of a loop that began at p and got stmt from self.declaration() has
\* consumed a token or raised, and the cursor is at or before the EOF token
Consumed(toks, p, stmt) ==
    /\ stmt.pos <= EofIndex(toks, 0)
    /\ IF stmt.ok THEN stmt.pos > p ELSE stmt.pos >= p

\* C33: the cursor is never before the first token or beyond the EOF token;
\* a turn of parse's loop, and a turn of a block's loop wherever it may begin,
\* consumes at least one token or raises a ParserError, and parse returns
\* only at the EOF token: the cursor grows with every turn and is bounded, so
\* parse ends after at most as many turns as there are tokens.
C33_ParseTerminates ==
    /\ [](parseState \in {"parsing", "parsed", "error"} =>
            /\ parser_pos >= 0
            /\ parser_pos <= EofIndex(parser_tokens, 0)
            /\ \A p \in 0..(EofIndex(parser_tokens, 0) - 1) :
                  Consumed(parser_tokens, p, declaration(parser_tokens, p)))
    /\ [][parseState = "parsing" =>
            \/ parser_pos' > parser_pos
            \/ parseState' = "error"
            \/ parseState' = "parsed" /\ is_at_end(parser_tokens, parser_pos)]_vars

\* parse has returned at the EOF token after a turn of its loop for an `if`
\* with two blocks, each of whose loops ran for a statement
C33_Witness ==
    /\ parseState = "parsed"
    /\ CountType(parser_tokens, "INDENT") = 2
    /\ Len(module_body) = 1
    /\ module_body[1].node = "If"
    /\ parser_pos = EofIndex(parser_tokens, 0)
    /\ parser_pos > 0

=============================================================================
